---- MODULE Spec2Model ----
(***************************************************************************)
(* A model of the Teia user-activity aggregation (teiaUtils/teiaUsers.py)  *)
(* and of the token allocation script (scripts/tokenDistribution.py).      *)
(*                                                                         *)
(* Money is kept in mutez (1 tez = 1e6 mutez) as exact integers; the code  *)
(* keeps tez as floats (amount / 1e6).  Every amount the model draws is a  *)
(* multiple of 1000 mutez times a power of two, so the per-mille royalty   *)
(* and the collaboration shares are exact.                                 *)
(* Timestamps are integers: the code compares fixed-width ISO-8601 strings *)
(* lexicographically, which is their chronological order.                  *)
(***************************************************************************)
EXTENDS Integers, Sequences, FiniteSets, TLC

VARIABLES users, users_keys, id_to_address, raised, events, table,
          distribution, calls, returned, sources, loop

vars == <<users, users_keys, id_to_address, raised, events, table,
          distribution, calls, returned, sources, loop>>

----------------------------------------------------------------------------
(* Bounds of the model *)

\* number of records (transactions, snapshot entries, enrichment calls) the
\* registry is fed in one run
MaxEvents == 3

\* timestamps are drawn from 1..MaxTime
MaxTime == 2

\* the length of the longest list of mints that the memory holds
MaxMinted == 5

----------------------------------------------------------------------------
(* Inputs: addresses, bigmaps, collaborations *)

\* Python's None, for the extrema fields that hold a dict once set
None == [none |-> TRUE]

TeiaMarketplace == "KT1PHubm9HtyQEJ4BBpMTVomq6mhbfNZ9z5w"

HenMarketplace == "KT1HbQepzV1nVGg8QVznG7z4RcHseD5kwqBn"

UserAddresses == {"tz1X", "tz1Y", "tz1Z"}

ContractAddresses == {"KT1C"}

Addresses == UserAddresses \cup ContractAddresses

\* the royalties bigmap: objkt_id -> issuer and royalties (per mille)
royalties == (1 :> [issuer |-> "tz1X", royalties |-> 100]) @@
             (2 :> [issuer |-> "KT1C", royalties |-> 250])

\* the swaps bigmaps of both marketplaces: swap_id -> issuer, objkt_id; with
\* the marketplace that holds the swap, the form of the collect parameter of
\* that marketplace and the price paid by a collect of the swap
swaps == (1 :> [issuer |-> "tz1X", objkt_id |-> 1, target |-> HenMarketplace,
                dict |-> TRUE, amount |-> 100000000]) @@
         (2 :> [issuer |-> "tz1Y", objkt_id |-> 1, target |-> TeiaMarketplace,
                dict |-> FALSE, amount |-> 40000000]) @@
         (3 :> [issuer |-> "KT1C", objkt_id |-> 1, target |-> TeiaMarketplace,
                dict |-> FALSE, amount |-> 40000000]) @@
         (4 :> [issuer |-> "KT1C", objkt_id |-> 2, target |-> HenMarketplace,
                dict |-> TRUE, amount |-> 40000000]) @@
         (5 :> [issuer |-> "tz1Y", objkt_id |-> 3, target |-> TeiaMarketplace,
                dict |-> FALSE, amount |-> 40000000])

\* the swaps of the OBJKTs that have an entry in the royalties bigmap
ResolvedSwaps == {s \in DOMAIN swaps : swaps[s].objkt_id \in DOMAIN royalties}

Timestamps == 1..MaxTime

\* mint transactions (mint, mint_OBJKT zipped): the minter of a token is its
\* issuer in the royalties bigmap
MintTransactions ==
    {[token_id |-> t, timestamp |-> ts, sender |-> royalties[t].issuer] :
        t \in DOMAIN royalties, ts \in Timestamps}

\* collect transactions: transaction["parameter"]["value"] is a dict holding
\* swap_id or the bare swap id
CollectTransactions ==
    {[parameter |-> [dict |-> swaps[s].dict,
                     value |-> IF swaps[s].dict THEN [swap_id |-> s]
                                                ELSE [bare |-> s]],
      amount |-> swaps[s].amount, timestamp |-> ts, sender |-> a,
      target |-> swaps[s].target] :
        s \in ResolvedSwaps, ts \in Timestamps, a \in {"tz1X", "tz1Y"}}

\* collect transactions that the bigmaps do not resolve: of swap 5, whose
\* OBJKT has no entry in royalties, and of swap 9, which swaps does not hold
UnresolvedCollectTransactions ==
    {[parameter |-> [dict |-> FALSE, value |-> [bare |-> 5]],
      amount |-> 40000000, timestamp |-> 1, sender |-> "tz1Z",
      target |-> TeiaMarketplace],
     [parameter |-> [dict |-> TRUE, value |-> [swap_id |-> 9]],
      amount |-> 40000000, timestamp |-> 1, sender |-> "tz1Z",
      target |-> HenMarketplace]}

\* collect transactions that a contract sends
ContractCollectTransactions ==
    {[parameter |-> [dict |-> swaps[s].dict,
                     value |-> IF swaps[s].dict THEN [swap_id |-> s]
                                                ELSE [bare |-> s]],
      amount |-> swaps[s].amount, timestamp |-> 1, sender |-> "KT1C",
      target |-> swaps[s].target] :
        s \in ResolvedSwaps}

\* swap transactions: the ones that created the entries of the swaps bigmaps
SwapTransactions ==
    {[objkt_id |-> swaps[s].objkt_id, timestamp |-> ts,
      sender |-> swaps[s].issuer, target |-> swaps[s].target] :
        s \in ResolvedSwaps, ts \in Timestamps}

\* hDAO snapshots: address -> balance, in the order of the snapshot file
HdaoSnapshots ==
    {<<[address |-> "tz1Z", hdao |-> 3000000],
       [address |-> "tz1Y", hdao |-> 0]>>,
     <<[address |-> "tz1X", hdao |-> 1000000]>>}

\* the block level of the hDAO snapshot
hdao_snapshot_level == 3263366

\* contribution levels: address -> contribution, in the order of the file
ContributionLevels ==
    {<<[address |-> "tz1Z", contribution |-> [level |-> 2, type |-> "dev"]]>>,
     <<[address |-> "tz1X", contribution |-> [level |-> 1, type |-> "art"]]>>}

\* lists of restricted addresses
RestrictedLists == {{"tz1Y"}, {"tz1X"}}

\* lists of wash trading addresses
WashTradingLists == {{"tz1Y"}, {}}

\* the artists collaborations: contract address -> storage
artists_collaborations ==
    <<[address |-> "KT1C",
       coreParticipants |-> {"tz1X", "tz1Y"},
       shares |-> [a \in {"tz1X", "tz1Y"} |-> 1],
       totalShares |-> 2]>>

\* the artists collaborations signatures: address -> signed OBJKTs.  tz1X
\* signed the OBJKT of the collaboration; tz1Y signed an OBJKT that is not of
\* the collaboration; tz1Z, which is not a participant, signed the OBJKT of
\* the collaboration.
artists_collaborations_signatures ==
    ("tz1X" :> {2}) @@ ("tz1Y" :> {1}) @@ ("tz1Z" :> {2})

----------------------------------------------------------------------------
(* TeiaUser *)

\* TeiaUser.__init__
TeiaUser(address, id) ==
    [address |-> address, id |-> id, type |-> "None",
     restricted |-> FALSE, wash_trader |-> FALSE,
     hdao |-> 0, hdao_snapshot_level |-> 0,
     contribution_level |-> 0, contribution_type |-> "",
     first_activity |-> None, last_activity |-> None,
     first_mint |-> None, last_mint |-> None,
     first_collect |-> None, last_collect |-> None,
     first_swap |-> None, last_swap |-> None,
     mint_timestamps |-> <<>>, collect_timestamps |-> <<>>,
     swap_timestamps |-> <<>>, teia_activity_timestamps |-> <<>>,
     minted_objkts |-> <<>>, collected_objkts |-> <<>>,
     swapped_objkts |-> <<>>,
     money_earned_own_objkts |-> <<>>, money_earned_other_objkts |-> <<>>,
     money_spent |-> <<>>,
     total_money_earned_own_objkts |-> 0,
     total_money_earned_collaborations_objkts |-> 0,
     total_money_earned_other_objkts |-> 0,
     total_money_earned |-> 0,
     total_money_spent |-> 0,
     artist_connections |-> <<>>, collector_connections |-> <<>>,
     collaborations |-> <<>>,
     username |-> None, tzkt_username |-> None,
     tzprofiles_username |-> None, hen_username |-> None,
     fxhash_username |-> None, tzkt_metadata |-> None, tzprofile |-> None,
     twitter |-> None, discord |-> None, tezos_domains |-> <<>>,
     verified |-> FALSE]

\* IsFirst with the test for a stored extremum inverted
IsFirst_stored(extremum, timestamp) ==
    (extremum # None) /\ (timestamp < extremum.timestamp)

\* IsLast without the comparison of the timestamps
IsLast_unset(extremum, timestamp) == extremum = None

\* the timestamp precedes the stored first extremum (or none is stored)
IsFirst(extremum, timestamp) ==
    (extremum = None) \/ (timestamp < extremum.timestamp)

\* the timestamp follows the stored last extremum (or none is stored)
IsLast(extremum, timestamp) ==
    (extremum = None) \/ (timestamp > extremum.timestamp)

\* swapper_type that leaves only a patron alone
swapper_type_patron(type) ==
    IF type # "patron" THEN "swapper" ELSE type

\* "Set the user type as swapper if it's not an artist nor a patron"
swapper_type(type) ==
    IF type \notin {"artist", "patron"} THEN "swapper" ELSE type

\* patron_type that sets the type of an untyped profile only
patron_type_unset(type) ==
    IF type = "None" THEN "patron" ELSE type

\* "Set the user type as patron if it's not an artist"
patron_type(type) ==
    IF type # "artist" THEN "patron" ELSE type

\* AddConnection that assigns 1 instead of adding it
AddConnection_assign(connections, key) ==
    [k \in DOMAIN connections \cup {key} |->
        IF k = key THEN 1 ELSE connections[k]]

\* dict[key] += 1, or dict[key] = 1 for a new key
AddConnection(connections, key) ==
    IF key \in DOMAIN connections
    THEN [connections EXCEPT ![key] = @ + 1]
    ELSE [k \in DOMAIN connections \cup {key} |->
             IF k = key THEN 1 ELSE connections[k]]

\* a connection key that is an address (before compression)
AddressKey(address) == [address |-> address]

\* a connection key that is a user id (after compression)
IdKey(id) == [id |-> id]

\* PerMille taking the royalties for a percentage
PerMille_percent(paid_amount, per_mille) == (paid_amount \div 100) * per_mille

\* paid_amount * per_mille / 1000, exact for the amounts of the model
PerMille(paid_amount, per_mille) == (paid_amount \div 1000) * per_mille

\* site_fees = 25 / 1000
site_fees == 25

\* ApplyActivity that leaves a stored activity alone
ApplyActivity_once(self, type, timestamp) ==
    [self EXCEPT
        !.first_activity =
            IF @ = None THEN [type |-> type, timestamp |-> timestamp] ELSE @,
        !.last_activity =
            IF @ = None THEN [type |-> type, timestamp |-> timestamp] ELSE @]

\* "Check if it's the first user activity", "Check if it's the last user
\* activity"
ApplyActivity(self, type, timestamp) ==
    [self EXCEPT
        !.first_activity =
            IF IsFirst(self.first_activity, timestamp)
            THEN [type |-> type, timestamp |-> timestamp] ELSE @,
        !.last_activity =
            IF IsLast(self.last_activity, timestamp)
            THEN [type |-> type, timestamp |-> timestamp] ELSE @]

\* the type, the extrema and the lists after a mint of objkt_id at timestamp
\* (add_mint_transaction, and the same lines of add_artists_collaborations)
ApplyMint(self, objkt_id, timestamp) ==
    [ApplyActivity(self, "mint", timestamp) EXCEPT
        !.type = "artist",
        !.first_mint =
            IF IsFirst(self.first_mint, timestamp)
            THEN [id |-> objkt_id, timestamp |-> timestamp] ELSE @,
        !.last_mint =
            IF IsLast(self.last_mint, timestamp)
            THEN [id |-> objkt_id, timestamp |-> timestamp] ELSE @,
        !.mint_timestamps = Append(@, timestamp),
        !.minted_objkts = Append(@, objkt_id)]

\* TeiaUser.add_mint_transaction
add_mint_transaction(self, transaction) ==
    ApplyMint(self, transaction.token_id, transaction.timestamp)

\* the swap id of a collect transaction, from either form of its parameter
SwapId(transaction) ==
    IF transaction.parameter.dict
    THEN transaction.parameter.value.swap_id
    ELSE transaction.parameter.value.bare

\* CollectAsCreator without the money earned in royalties
CollectAsCreator_unpaid(self, transaction) ==
    LET objkt_id == swaps[SwapId(transaction)].objkt_id
    IN  IF self.address = royalties[objkt_id].issuer
        THEN [self EXCEPT
                !.type = "artist",
                !.collector_connections =
                    AddConnection(@, AddressKey(transaction.sender))]
        ELSE self

\* add_collect_transaction, "Check if the user is the OBJKT creator"
CollectAsCreator(self, transaction) ==
    LET objkt_id == swaps[SwapId(transaction)].objkt_id
        money_earned == PerMille(transaction.amount,
                                 royalties[objkt_id].royalties)
    IN  IF self.address = royalties[objkt_id].issuer
        THEN [self EXCEPT
                !.type = "artist",
                !.money_earned_own_objkts = Append(@, money_earned),
                !.total_money_earned_own_objkts = @ + money_earned,
                !.total_money_earned = @ + money_earned,
                !.collector_connections =
                    AddConnection(@, AddressKey(transaction.sender))]
        ELSE self

\* add_collect_transaction, "Check if the user is the seller"
CollectAsSeller(self, transaction) ==
    LET swap_id == SwapId(transaction)
        objkt_id == swaps[swap_id].objkt_id
        money_earned ==
            PerMille(transaction.amount,
                     1000 - royalties[objkt_id].royalties - site_fees)
    IN  IF self.address = swaps[swap_id].issuer
        THEN IF self.address = royalties[objkt_id].issuer
             THEN [self EXCEPT
                    !.type = swapper_type(@),
                    !.money_earned_own_objkts = Append(@, money_earned),
                    !.total_money_earned_own_objkts = @ + money_earned,
                    !.total_money_earned = @ + money_earned]
             ELSE [self EXCEPT
                    !.type = swapper_type(@),
                    !.money_earned_other_objkts = Append(@, money_earned),
                    !.total_money_earned_other_objkts = @ + money_earned,
                    !.total_money_earned = @ + money_earned]
        ELSE self

\* add_collect_transaction, "Check if the user is the collector"
CollectAsCollector(self, transaction) ==
    LET objkt_id == swaps[SwapId(transaction)].objkt_id
        timestamp == transaction.timestamp
    IN  IF self.address = transaction.sender
        THEN [ApplyActivity(self, "collect", timestamp) EXCEPT
                !.type = patron_type(@),
                !.first_collect =
                    IF IsFirst(self.first_collect, timestamp)
                    THEN [id |-> objkt_id, timestamp |-> timestamp] ELSE @,
                !.last_collect =
                    IF IsLast(self.last_collect, timestamp)
                    THEN [id |-> objkt_id, timestamp |-> timestamp] ELSE @,
                !.collect_timestamps = Append(@, timestamp),
                !.collected_objkts = Append(@, objkt_id),
                !.teia_activity_timestamps =
                    IF transaction.target = TeiaMarketplace
                    THEN Append(@, timestamp) ELSE @,
                !.money_spent = Append(@, transaction.amount),
                !.total_money_spent = @ + transaction.amount,
                !.artist_connections =
                    AddConnection(@, AddressKey(royalties[objkt_id].issuer))]
        ELSE self

\* TeiaUser.add_collect_transaction: the three branches in turn
add_collect_transaction(self, transaction) ==
    CollectAsCollector(
        CollectAsSeller(CollectAsCreator(self, transaction), transaction),
        transaction)

\* TeiaUser.add_swap_transaction
add_swap_transaction(self, transaction) ==
    LET objkt_id == transaction.objkt_id
        timestamp == transaction.timestamp
    IN  [ApplyActivity(self, "swap", timestamp) EXCEPT
            !.type = swapper_type(@),
            !.first_swap =
                IF IsFirst(self.first_swap, timestamp)
                THEN [id |-> objkt_id, timestamp |-> timestamp] ELSE @,
            !.last_swap =
                IF IsLast(self.last_swap, timestamp)
                THEN [id |-> objkt_id, timestamp |-> timestamp] ELSE @,
            !.swap_timestamps = Append(@, timestamp),
            !.swapped_objkts = Append(@, objkt_id),
            !.teia_activity_timestamps =
                IF transaction.target = TeiaMarketplace
                THEN Append(@, timestamp) ELSE @]

\* TeiaUser.set_restricted
set_restricted(self, is_restricted) ==
    [self EXCEPT !.restricted = is_restricted]

\* TeiaUser.set_wash_trader
set_wash_trader(self, is_wash_trader) ==
    [self EXCEPT !.wash_trader = is_wash_trader]

\* set_hdao that sets the type of every profile
set_hdao_always(self, hdao, level) ==
    [self EXCEPT !.type = "hdao_owner", !.hdao = hdao,
                 !.hdao_snapshot_level = level]

\* TeiaUser.set_hdao
set_hdao(self, hdao, level) ==
    [self EXCEPT
        !.type = IF @ = "None" THEN "hdao_owner" ELSE @,
        !.hdao = hdao,
        !.hdao_snapshot_level = level]

\* set_contribution_level that sets the type of every profile
set_contribution_level_always(self, contribution) ==
    [self EXCEPT !.type = "contributor",
                 !.contribution_level = contribution.level,
                 !.contribution_type = contribution.type]

\* TeiaUser.set_contribution_level
set_contribution_level(self, contribution) ==
    [self EXCEPT
        !.type = IF @ = "None" THEN "contributor" ELSE @,
        !.contribution_level = contribution.level,
        !.contribution_type = contribution.type]

\* the elements of a list
Elements(list) == {list[i] : i \in DOMAIN list}

\* share * amount, with share = shares / totalShares
Share(amount, shares, totalShares) == (amount * shares) \div totalShares

\* AssociateObjkts without the test of the signature
RECURSIVE AssociateObjkts_unsigned(_, _, _, _)
AssociateObjkts_unsigned(self, mint_timestamps, minted_objkts, signed_objkts) ==
    IF mint_timestamps = <<>> \/ minted_objkts = <<>>
    THEN self
    ELSE AssociateObjkts_unsigned(
             ApplyMint(self, Head(minted_objkts), Head(mint_timestamps)),
             Tail(mint_timestamps), Tail(minted_objkts), signed_objkts)

\* add_artists_collaborations, "Associate the collaboration OBJKTs to the
\* user": the loop over zip(collab.mint_timestamps, collab.minted_objkts),
\* for a user that is not the collaboration itself, whose lists the loop
\* leaves as they are
RECURSIVE AssociateObjkts(_, _, _, _)
AssociateObjkts(self, mint_timestamps, minted_objkts, signed_objkts) ==
    IF mint_timestamps = <<>> \/ minted_objkts = <<>>
    THEN self
    ELSE AssociateObjkts(
             IF Head(minted_objkts) \notin signed_objkts
             THEN self
             ELSE ApplyMint(self, Head(minted_objkts), Head(mint_timestamps)),
             Tail(mint_timestamps), Tail(minted_objkts), signed_objkts)

\* add_artists_collaborations, the body of the loop for one collaboration
AddCollaboration(self, collaboration, signatures, all_users) ==
    LET address == collaboration.address
        typed == IF self.address = address
                 THEN [self EXCEPT !.type = "collaboration"]
                 ELSE self
        signed_objkts == IF self.address \in DOMAIN signatures
                         THEN signatures[self.address]
                         ELSE {}
    IN  IF /\ self.address \in collaboration.coreParticipants
           /\ address \in DOMAIN all_users
           /\ Len(all_users[address].minted_objkts) > 0
        THEN LET collab == all_users[address]
                 listed ==
                     IF Elements(collab.minted_objkts) \cap signed_objkts # {}
                     THEN [typed EXCEPT
                             !.collaborations = Append(@, address)]
                     ELSE typed
                 associated ==
                     AssociateObjkts(listed, collab.mint_timestamps,
                                     collab.minted_objkts, signed_objkts)
                 shares == collaboration.shares[self.address]
                 totalShares == collaboration.totalShares
             IN  [associated EXCEPT
                    !.total_money_earned_collaborations_objkts =
                        @ + Share(collab.total_money_earned_own_objkts,
                                  shares, totalShares),
                    !.total_money_earned =
                        @ + Share(collab.total_money_earned,
                                  shares, totalShares)]
        ELSE typed

\* TeiaUser.add_artists_collaborations: the loop over the collaborations
RECURSIVE user_add_artists_collaborations(_, _, _, _)
user_add_artists_collaborations(self, collaborations, signatures, all_users) ==
    IF collaborations = <<>>
    THEN self
    ELSE user_add_artists_collaborations(
             AddCollaboration(self, Head(collaborations), signatures,
                              all_users),
             Tail(collaborations), signatures, all_users)

\* a connections dict can be compressed: each key is an address with a profile
Compressible(connections, all_users) ==
    \A key \in DOMAIN connections :
        /\ DOMAIN key = {"address"}
        /\ key.address \in DOMAIN all_users

\* the compressed connections dict: user ids instead of addresses
CompressedConnections(connections, all_users) ==
    LET ids == {all_users[key.address].id : key \in DOMAIN connections}
    IN  [key \in {IdKey(id) : id \in ids} |->
            connections[CHOOSE k \in DOMAIN connections :
                            all_users[k.address].id = key.id]]

\* TeiaUser.compress_connections; users[address] raises KeyError for a key
\* without a profile, before the dict of that loop is assigned
compress_connections(self, all_users) ==
    IF ~Compressible(self.artist_connections, all_users)
    THEN [user |-> self, raised |-> "KeyError"]
    ELSE LET artists_done ==
                 [self EXCEPT !.artist_connections =
                     CompressedConnections(@, all_users)]
         IN  IF ~Compressible(self.collector_connections, all_users)
             THEN [user |-> artists_done, raised |-> "KeyError"]
             ELSE [user |-> [artists_done EXCEPT !.collector_connections =
                                CompressedConnections(@, all_users)],
                   raised |-> "None"]

----------------------------------------------------------------------------
(* TeiaUsers *)

\* TeiaUsers.__init__ with users=None.  The dict self.users is the function
\* users with the list keys of its keys, in the order of their insertion.
EmptyUsers == [users |-> <<>>, keys |-> <<>>, id_to_address |-> <<>>]

\* NewUser without the test for a known address
NewUser_always(self, address) ==
    LET id == Cardinality(DOMAIN self.users)
    IN  [users |-> (address :> TeiaUser(address, id)) @@ self.users,
         keys |-> IF address \in DOMAIN self.users
                  THEN self.keys ELSE Append(self.keys, address),
         id_to_address |-> (id :> address) @@ self.id_to_address]

\* "Add a new user if the address is new"
NewUser(self, address) ==
    IF address \notin DOMAIN self.users
    THEN LET id == Cardinality(DOMAIN self.users)
         IN  [users |-> (address :> TeiaUser(address, id)) @@ self.users,
              keys |-> Append(self.keys, address),
              id_to_address |-> (id :> address) @@ self.id_to_address]
    ELSE self

\* self.users[address].<method>: the registry with one profile replaced
WithUser(self, address, user) ==
    [self EXCEPT !.users = [@ EXCEPT ![address] = user]]

\* TeiaUsers.add_mint_transactions
RECURSIVE add_mint_transactions(_, _)
add_mint_transactions(self, mint_transactions) ==
    IF mint_transactions = <<>>
    THEN self
    ELSE LET mint == Head(mint_transactions)
             address == mint.sender
             created == NewUser(self, address)
         IN  add_mint_transactions(
                 WithUser(created, address,
                          add_mint_transaction(created.users[address], mint)),
                 Tail(mint_transactions))

\* the orders in which a loop can visit the elements of a Python set
Orders(S) ==
    {order \in [1..Cardinality(S) -> S] :
        \A i, j \in 1..Cardinality(S) : order[i] = order[j] => i = j}

\* the body of the loop over the unique addresses of one collect transaction
RECURSIVE CollectLoop(_, _, _)
CollectLoop(self, transaction, order) ==
    IF order = <<>>
    THEN self
    ELSE LET address == Head(order)
             created == NewUser(self, address)
         IN  CollectLoop(
                 WithUser(created, address,
                          add_collect_transaction(created.users[address],
                                                  transaction)),
                 transaction, Tail(order))

\* CollectAddresses without the creator and the seller
CollectAddresses_collector(transaction) == {transaction.sender}

\* the set {creator_address, seller_address, collector_address} of a collect
\* transaction
CollectAddresses(transaction) ==
    LET swap_id == SwapId(transaction)
        creator_address == royalties[swaps[swap_id].objkt_id].issuer
        seller_address == swaps[swap_id].issuer
        collector_address == transaction.sender
    IN  {creator_address, seller_address, collector_address}

\* the calls of add_collect_transaction that the loop over the unique
\* addresses makes, each with the addresses that have a profile when it is
\* made
RECURSIVE CollectCalls(_, _, _)
CollectCalls(self, transaction, order) ==
    IF order = <<>>
    THEN <<>>
    ELSE <<[address |-> Head(order),
            registered |-> DOMAIN NewUser(self, Head(order)).users]>>
         \o CollectCalls(CollectLoop(self, transaction, <<Head(order)>>),
                         transaction, Tail(order))

\* swaps[swap_id] and royalties[objkt_id] are there for the transaction
Resolved(transaction) ==
    /\ SwapId(transaction) \in DOMAIN swaps
    /\ swaps[SwapId(transaction)].objkt_id \in DOMAIN royalties

\* add_collect_transactions that goes on with the next transaction when the
\* bigmaps do not resolve one
RECURSIVE add_collect_transactions_skip(_, _, _)
add_collect_transactions_skip(self, transactions, orders) ==
    IF transactions = <<>>
    THEN [registry |-> self, raised |-> "None"]
    ELSE add_collect_transactions_skip(
             IF Resolved(Head(transactions))
             THEN CollectLoop(self, Head(transactions), Head(orders))
             ELSE self,
             Tail(transactions), Tail(orders))

\* TeiaUsers.add_collect_transactions; orders[i] is the order in which the
\* loop over the set of addresses of transactions[i] visits them, which
\* Python leaves open (the hash of a str changes from run to run).  The
\* lookups of the creator and the seller raise KeyError for a transaction
\* that the bigmaps do not resolve, before the loop over the addresses.
RECURSIVE add_collect_transactions(_, _, _)
add_collect_transactions(self, transactions, orders) ==
    IF transactions = <<>>
    THEN [registry |-> self, raised |-> "None"]
    ELSE IF ~Resolved(Head(transactions))
         THEN [registry |-> self, raised |-> "KeyError"]
         ELSE add_collect_transactions(
                  CollectLoop(self, Head(transactions), Head(orders)),
                  Tail(transactions), Tail(orders))

\* TeiaUsers.add_swap_transactions
RECURSIVE add_swap_transactions(_, _)
add_swap_transactions(self, transactions) ==
    IF transactions = <<>>
    THEN self
    ELSE LET transaction == Head(transactions)
             address == transaction.sender
             created == NewUser(self, address)
         IN  add_swap_transactions(
                 WithUser(created, address,
                          add_swap_transaction(created.users[address],
                                               transaction)),
                 Tail(transactions))

\* the addresses in the order of self.users.items() and self.users.values()
UsersOrder(self) == self.keys

\* TeiaUsers.add_hdao_information
RECURSIVE add_hdao_information(_, _, _)
add_hdao_information(self, hdao_holders, level) ==
    IF hdao_holders = <<>>
    THEN self
    ELSE LET address == Head(hdao_holders).address
             hdao == Head(hdao_holders).hdao
             created == NewUser(self, address)
         IN  add_hdao_information(
                 IF hdao > 0
                 THEN WithUser(created, address,
                               set_hdao(created.users[address], hdao, level))
                 ELSE self,
                 Tail(hdao_holders), level)

\* TeiaUsers.add_contribution_level_information
RECURSIVE add_contribution_level_information(_, _)
add_contribution_level_information(self, contribution_levels) ==
    IF contribution_levels = <<>>
    THEN self
    ELSE LET address == Head(contribution_levels).address
             created == NewUser(self, address)
         IN  add_contribution_level_information(
                 WithUser(created, address,
                          set_contribution_level(
                              created.users[address],
                              Head(contribution_levels).contribution)),
                 Tail(contribution_levels))

\* TeiaUsers.add_restricted_addresses_information
add_restricted_addresses_information(self, restricted_addresses) ==
    [self EXCEPT !.users =
        [address \in DOMAIN self.users |->
            set_restricted(self.users[address],
                           address \in restricted_addresses)]]

\* TeiaUsers.add_wash_trading_addresses_information
add_wash_trading_addresses_information(self, wash_trading_addresses) ==
    [self EXCEPT !.users =
        [address \in DOMAIN self.users |->
            set_wash_trader(self.users[address],
                            address \in wash_trading_addresses)]]

\* TeiaUsers.add_artists_collaborations: the loop over self.users.values(),
\* each user reading the profiles as the users before it left them
RECURSIVE CollaborationsLoop(_, _, _, _)
CollaborationsLoop(self, order, collaborations, signatures) ==
    IF order = <<>>
    THEN self
    ELSE CollaborationsLoop(
             WithUser(self, Head(order),
                      user_add_artists_collaborations(
                          self.users[Head(order)], collaborations, signatures,
                          self.users)),
             Tail(order), collaborations, signatures)

add_artists_collaborations(self, collaborations, signatures) ==
    CollaborationsLoop(self, UsersOrder(self), collaborations, signatures)

\* TeiaUsers.compress_user_connections: the loop over self.users.values(),
\* which the first KeyError ends
RECURSIVE CompressLoop(_, _)
CompressLoop(self, order) ==
    IF order = <<>>
    THEN [registry |-> self, raised |-> "None"]
    ELSE LET done == compress_connections(self.users[Head(order)], self.users)
             next == WithUser(self, Head(order), done.user)
         IN  IF done.raised # "None"
             THEN [registry |-> next, raised |-> done.raised]
             ELSE CompressLoop(next, Tail(order))

compress_user_connections(self) == CompressLoop(self, UsersOrder(self))

\* the filter selections of select
Filters ==
    {"contributors", "artists", "collectors", "patrons", "swappers",
     "hdao_owners", "not_hdao_owners", "restricted", "not_restricted",
     "wash_traders", "not_wash_traders", "collaborations", "contract",
     "not_contract"}

\* address.startswith("KT")
StartsWithKT(address) == address \in ContractAddresses

\* address.startswith("tz")
StartsWithTz(address) == address \in UserAddresses

\* the condition select tests on a user for a filter selection
Selected(filter_selection, address, user) ==
    CASE filter_selection = "contributors" -> user.contribution_level > 0
      [] filter_selection = "artists" -> user.type = "artist"
      [] filter_selection = "collectors" -> Len(user.collected_objkts) > 0
      [] filter_selection = "patrons" -> user.type = "patron"
      [] filter_selection = "swappers" -> user.type = "swapper"
      [] filter_selection = "hdao_owners" -> user.type = "hdao_owner"
      [] filter_selection = "not_hdao_owners" -> user.type # "hdao_owner"
      [] filter_selection = "restricted" -> user.restricted
      [] filter_selection = "not_restricted" -> ~user.restricted
      [] filter_selection = "wash_traders" -> user.wash_trader
      [] filter_selection = "not_wash_traders" -> ~user.wash_trader
      [] filter_selection = "collaborations" -> user.type = "collaboration"
      [] filter_selection = "contract" -> StartsWithKT(address)
      [] filter_selection = "not_contract" -> StartsWithTz(address)
      [] OTHER -> FALSE

\* TeiaUsers.__init__ with a users dict, whose keys are the list keys: of
\* two users with one id, the dict comprehension keeps the later one
TeiaUsers(selected_users, keys) ==
    [users |-> selected_users,
     keys |-> keys,
     id_to_address |->
        [id \in {selected_users[a].id : a \in DOMAIN selected_users} |->
            LET with == {i \in DOMAIN keys : selected_users[keys[i]].id = id}
            IN  keys[CHOOSE i \in with : \A j \in with : j <= i]]]

\* the keys of selected_users, which select fills in the order of
\* self.users.items()
SelectedKeys(self, filter_selection) ==
    LET IsSelected(address) ==
            Selected(filter_selection, address, self.users[address])
    IN  SelectSeq(self.keys, IsSelected)

\* select that takes not_restricted for restricted
select_negated(self, filter_selection) ==
    LET tested == IF filter_selection = "not_restricted"
                  THEN "restricted" ELSE filter_selection
    IN  TeiaUsers([address \in {a \in DOMAIN self.users :
                                    Selected(tested, a, self.users[a])} |->
                      self.users[address]],
                  SelectedKeys(self, tested))

\* TeiaUsers.select
select(self, filter_selection) ==
    TeiaUsers([address \in {a \in DOMAIN self.users :
                                Selected(filter_selection, a,
                                         self.users[a])} |->
                  self.users[address]],
              SelectedKeys(self, filter_selection))

\* the batches drawn from S: one record each, since the loops of the batch
\* operations keep no state between two records, so that a batch of n records
\* leaves what n batches of one record leave
Batches(S) == {<<record>> : record \in S}

\* the batches of collect transactions: the ones above, and the batches that
\* hold a transaction the bigmaps do not resolve, alone, after and before a
\* transaction they resolve
CollectBatches ==
    Batches(CollectTransactions)
    \cup Batches(UnresolvedCollectTransactions)
    \cup {<<collect, unresolved>> :
            collect \in CollectTransactions,
            unresolved \in UnresolvedCollectTransactions}
    \cup {<<unresolved, collect>> :
            unresolved \in UnresolvedCollectTransactions,
            collect \in CollectTransactions}

\* the orders in which add_collect_transactions can visit the addresses of
\* each transaction of a batch
TransactionOrders(transaction) ==
    IF Resolved(transaction)
    THEN Orders(CollectAddresses(transaction))
    ELSE {<<>>}

BatchOrders(batch) ==
    IF Len(batch) = 1
    THEN {<<order>> : order \in TransactionOrders(batch[1])}
    ELSE {<<first, second>> :
            first \in TransactionOrders(batch[1]),
            second \in TransactionOrders(batch[2])}

----------------------------------------------------------------------------
(* The registry as a state machine: one action per batch operation *)

Registry ==
    [users |-> users, keys |-> users_keys, id_to_address |-> id_to_address]

Init ==
    /\ users = EmptyUsers.users
    /\ users_keys = EmptyUsers.keys
    /\ id_to_address = EmptyUsers.id_to_address
    /\ loop = None
    /\ raised = "None"
    /\ events = 0
    /\ table = <<>>
    /\ distribution = None
    /\ calls = <<>>
    /\ returned = None
    /\ sources = None

\* the registry becomes next after n more records; an uncaught exception
\* ends the run
Becomes(next, n) ==
    /\ raised = "None"
    /\ events + n <= MaxEvents
    /\ users' = next.users
    /\ users_keys' = next.keys
    /\ id_to_address' = next.id_to_address
    /\ events' = events + n
    /\ UNCHANGED <<table, distribution, calls, returned, sources, loop>>

AddMintTransactions ==
    \E batch \in Batches(MintTransactions) :
        /\ Becomes(add_mint_transactions(Registry, batch), Len(batch))
        /\ UNCHANGED raised

AddCollectTransactions ==
    \E batch \in CollectBatches :
        \E orders \in BatchOrders(batch) :
            LET done == add_collect_transactions(Registry, batch, orders)
            IN  /\ Becomes(done.registry, Len(batch))
                /\ raised' = done.raised

AddSwapTransactions ==
    \E batch \in Batches(SwapTransactions) :
        /\ Becomes(add_swap_transactions(Registry, batch), Len(batch))
        /\ UNCHANGED raised

AddHdaoInformation ==
    \E hdao_holders \in HdaoSnapshots :
        /\ Becomes(add_hdao_information(Registry, hdao_holders,
                                        hdao_snapshot_level), 1)
        /\ UNCHANGED raised

AddContributionLevelInformation ==
    \E contribution_levels \in ContributionLevels :
        /\ Becomes(add_contribution_level_information(
                       Registry, contribution_levels), 1)
        /\ UNCHANGED raised

AddRestrictedAddressesInformation ==
    \E restricted_addresses \in RestrictedLists :
        /\ Becomes(add_restricted_addresses_information(
                       Registry, restricted_addresses), 1)
        /\ UNCHANGED raised

AddWashTradingAddressesInformation ==
    \E wash_trading_addresses \in WashTradingLists :
        /\ Becomes(add_wash_trading_addresses_information(
                       Registry, wash_trading_addresses), 1)
        /\ UNCHANGED raised

AddArtistsCollaborations ==
    /\ Becomes(add_artists_collaborations(
                   Registry, artists_collaborations,
                   artists_collaborations_signatures), 1)
    /\ UNCHANGED raised

CompressUserConnections ==
    LET done == compress_user_connections(Registry)
    IN  /\ Becomes(done.registry, 1)
        /\ raised' = done.raised

\* mint, collect and swap ingestion only
NextIngest ==
    \/ AddMintTransactions
    \/ AddCollectTransactions
    \/ AddSwapTransactions

SpecIngest == Init /\ [][NextIngest]_vars

Next ==
    \/ AddMintTransactions
    \/ AddCollectTransactions
    \/ AddSwapTransactions
    \/ AddHdaoInformation
    \/ AddContributionLevelInformation
    \/ AddRestrictedAddressesInformation
    \/ AddWashTradingAddressesInformation
    \/ AddArtistsCollaborations
    \/ CompressUserConnections

Spec == Init /\ [][Next]_vars

----------------------------------------------------------------------------
(* One collection of events, ingested in the order of a list of calls *)

\* the calls of add_mint_transactions, add_collect_transactions,
\* add_swap_transactions and add_hdao_information; the events all carry the
\* first timestamp
OrderCalls ==
    {[op |-> "add_mint_transactions", batch |-> batch] :
        batch \in Batches({t \in MintTransactions : t.timestamp = 1})}
    \cup {[op |-> "add_collect_transactions", batch |-> batch] :
        batch \in Batches({t \in CollectTransactions : t.timestamp = 1})}
    \cup {[op |-> "add_swap_transactions", batch |-> batch] :
        batch \in Batches({t \in SwapTransactions : t.timestamp = 1})}
    \cup {[op |-> "add_hdao_information", batch |-> hdao_holders] :
        hdao_holders \in HdaoSnapshots}

\* the lists of calls
CallSequences == UNION {[1..n -> OrderCalls] : n \in 1..MaxEvents}

\* the orders in which a call can visit the addresses of its transaction
CallOrders(call) ==
    IF call.op = "add_collect_transactions"
    THEN Orders(CollectAddresses(call.batch[1]))
    ELSE {<<>>}

\* the registry after a call
ApplyCall(self, call, order) ==
    CASE call.op = "add_mint_transactions" ->
            add_mint_transactions(self, call.batch)
      [] call.op = "add_collect_transactions" ->
            add_collect_transactions(self, call.batch, <<order>>).registry
      [] call.op = "add_swap_transactions" ->
            add_swap_transactions(self, call.batch)
      [] call.op = "add_hdao_information" ->
            add_hdao_information(self, call.batch, hdao_snapshot_level)

InitOrder ==
    /\ users = EmptyUsers.users
    /\ users_keys = EmptyUsers.keys
    /\ id_to_address = EmptyUsers.id_to_address
    /\ loop = None
    /\ raised = "None"
    /\ events = 0
    /\ table = <<>>
    /\ distribution = None
    /\ calls \in CallSequences
    /\ returned = None
    /\ sources = None

\* the next call of the list
IngestCall ==
    /\ events < Len(calls)
    /\ \E order \in CallOrders(calls[events + 1]) :
        /\ raised = "None"
        /\ users' = ApplyCall(Registry, calls[events + 1], order).users
        /\ users_keys' = ApplyCall(Registry, calls[events + 1], order).keys
        /\ id_to_address' =
               ApplyCall(Registry, calls[events + 1], order).id_to_address
        /\ events' = events + 1
        /\ UNCHANGED <<raised, table, distribution, calls, returned, sources,
                       loop>>

SpecOrder == InitOrder /\ [][IngestCall]_vars

----------------------------------------------------------------------------
(* The top selling artists and the top collectors *)

\* the values of n
TopSizes == {1, 2, 5}

\* the users that are neither restricted nor wash traders, in the order of
\* self.users.values()
RECURSIVE Considered(_, _)
Considered(self, order) ==
    IF order = <<>>
    THEN <<>>
    ELSE (IF \/ self.users[Head(order)].restricted
             \/ self.users[Head(order)].wash_trader
          THEN <<>> ELSE <<Head(order)>>)
         \o Considered(self, Tail(order))

\* what values.argsort() can return: the sort is not a stable one, so it is
\* any permutation of the indices that puts the values in ascending order
Argsorts(values) ==
    {argsort \in Orders(DOMAIN values) :
        \A i, j \in DOMAIN values :
            i < j => values[argsort[i]] <= values[argsort[j]]}

\* addresses[argsort[::-1]][:n]
TopAddresses(addresses, argsort, n) ==
    LET k == Len(addresses)
        reversed == [i \in 1..k |-> addresses[argsort[k + 1 - i]]]
    IN  SubSeq(reversed, 1, IF n < k THEN n ELSE k)

\* the array total_money_earned_own_objkts of get_top_selling_artists
EarnedOwnObjkts(self) ==
    LET addresses == Considered(self, UsersOrder(self))
    IN  [i \in DOMAIN addresses |->
            self.users[addresses[i]].total_money_earned_own_objkts]

\* the array total_money_spent of get_top_collectors
Spent(self) ==
    LET addresses == Considered(self, UsersOrder(self))
    IN  [i \in DOMAIN addresses |->
            self.users[addresses[i]].total_money_spent]

\* TeiaUsers.get_top_selling_artists
get_top_selling_artists(self, n, argsort) ==
    TopAddresses(Considered(self, UsersOrder(self)), argsort, n)

\* TeiaUsers.get_top_collectors
get_top_collectors(self, n, argsort) ==
    TopAddresses(Considered(self, UsersOrder(self)), argsort, n)

\* a call that returns and leaves the registry as it is; it is one of the
\* operations of the run
Returns(call, n, result) ==
    /\ raised = "None"
    /\ events < MaxEvents
    /\ events' = events + 1
    /\ returned' = [call |-> call, n |-> n, result |-> result]
    /\ UNCHANGED <<users, users_keys, id_to_address, raised, table,
                   distribution, calls, sources, loop>>

GetTopSellingArtists ==
    \E n \in TopSizes : \E argsort \in Argsorts(EarnedOwnObjkts(Registry)) :
        Returns("get_top_selling_artists", n,
                get_top_selling_artists(Registry, n, argsort))

GetTopCollectors ==
    \E n \in TopSizes : \E argsort \in Argsorts(Spent(Registry)) :
        Returns("get_top_collectors", n,
                get_top_collectors(Registry, n, argsort))

NextTop ==
    \/ AddMintTransactions
    \/ AddCollectTransactions
    \/ AddRestrictedAddressesInformation
    \/ AddWashTradingAddressesInformation
    \/ GetTopSellingArtists
    \/ GetTopCollectors

SpecTop == Init /\ [][NextTop]_vars

----------------------------------------------------------------------------
(* A registry that select returns, in place of the one it was called on *)

SelectUsers ==
    \E filter_selection \in Filters :
        /\ Becomes(select(Registry, filter_selection), 1)
        /\ UNCHANGED raised

NextSelect ==
    \/ AddMintTransactions
    \/ AddCollectTransactions
    \/ SelectUsers
    \/ CompressUserConnections

SpecSelect == Init /\ [][NextSelect]_vars

----------------------------------------------------------------------------
(* The ingestion of one collect transaction, with the calls that it makes *)

\* add_collect_transactions with a list of one transaction: calls keeps the
\* transaction, returned the calls of add_collect_transaction
AddCollectTransaction ==
    \E transaction \in CollectTransactions \cup ContractCollectTransactions :
        \E order \in TransactionOrders(transaction) :
            LET done == add_collect_transactions(
                            Registry, <<transaction>>, <<order>>)
            IN  /\ raised = "None"
                /\ events < MaxEvents
                /\ users' = done.registry.users
                /\ users_keys' = done.registry.keys
                /\ id_to_address' = done.registry.id_to_address
                /\ raised' = done.raised
                /\ events' = events + 1
                /\ calls' = <<[op |-> "add_collect_transactions",
                               event |-> events + 1,
                               batch |-> <<transaction>>]>>
                /\ returned' = CollectCalls(Registry, transaction, order)
                /\ UNCHANGED <<table, distribution, sources, loop>>

NextCollect ==
    \/ AddMintTransactions
    \/ AddCollectTransaction
    \/ AddSwapTransactions
    \/ AddArtistsCollaborations

SpecCollect == Init /\ [][NextCollect]_vars

----------------------------------------------------------------------------
(* add_artists_collaborations, one iteration of its loops at a time *)

\* the collaborations: the one above, and one whose contract is listed among
\* its own coreParticipants
LoopCollaborations ==
    {artists_collaborations[1],
     [address |-> "KT1C",
      coreParticipants |-> {"tz1X", "KT1C"},
      shares |-> [a \in {"tz1X", "KT1C"} |-> 1],
      totalShares |-> 2]}

\* the signatures: the ones above, and ones that hold the signature of the
\* contract for its own OBJKT
LoopSignatures ==
    {artists_collaborations_signatures,
     ("tz1X" :> {2}) @@ ("KT1C" :> {2})}

\* a registry after one or two mints, and the arguments of
\* add_artists_collaborations
InitLoop ==
    /\ \E batch \in Batches(MintTransactions)
                     \cup {<<first, second>> :
                             first \in MintTransactions,
                             second \in MintTransactions} :
        /\ users = add_mint_transactions(EmptyUsers, batch).users
        /\ users_keys = add_mint_transactions(EmptyUsers, batch).keys
        /\ id_to_address =
               add_mint_transactions(EmptyUsers, batch).id_to_address
    /\ raised = "None"
    /\ events = 0
    /\ table = <<>>
    /\ distribution = None
    /\ \E collaboration \in LoopCollaborations :
         \E signatures \in LoopSignatures :
            calls = <<[op |-> "add_artists_collaborations",
                       collaboration |-> collaboration,
                       signatures |-> signatures,
                       self |-> Registry]>>
    /\ returned = None
    /\ sources = None
    /\ loop = None

\* the user of the loop "for user in self.users.values()"
LoopUser == users[users_keys[loop.user]]

\* collab = users[address]
LoopCollab == users[calls[1].collaboration.address]

\* signed_objkts of the user of the loop
LoopSigned ==
    IF LoopUser.address \in DOMAIN calls[1].signatures
    THEN calls[1].signatures[LoopUser.address]
    ELSE {}

\* a step of the loops changes the profile of the user of the loop
LoopBecomes(user) ==
    /\ users' = [users EXCEPT ![user.address] = user]
    /\ UNCHANGED <<users_keys, id_to_address, events, table, distribution,
                   calls, returned, sources>>

\* TeiaUsers.add_artists_collaborations is called
CallCollaborations ==
    /\ loop = None
    /\ raised = "None"
    /\ loop' = [user |-> 1, index |-> 0]
    /\ UNCHANGED <<users, users_keys, id_to_address, raised, events, table,
                   distribution, calls, returned, sources>>

\* the body of the loop over the collaborations for the next user, up to the
\* loop over the mints of the collaboration
EnterCollaboration ==
    /\ loop # None
    /\ raised = "None"
    /\ loop.index = 0
    /\ loop.user <= Len(users_keys)
    /\ LET collaboration == calls[1].collaboration
           typed == IF LoopUser.address = collaboration.address
                    THEN [LoopUser EXCEPT !.type = "collaboration"]
                    ELSE LoopUser
       IN  IF /\ typed.address \in collaboration.coreParticipants
              /\ collaboration.address \in DOMAIN users
              /\ Len(LoopCollab.minted_objkts) > 0
           THEN /\ LoopBecomes(
                      IF Elements(LoopCollab.minted_objkts) \cap LoopSigned
                            # {}
                      THEN [typed EXCEPT !.collaborations =
                                Append(@, collaboration.address)]
                      ELSE typed)
                /\ loop' = [loop EXCEPT !.index = 1]
           ELSE /\ LoopBecomes(typed)
                /\ loop' = [loop EXCEPT !.user = @ + 1]
    /\ UNCHANGED raised

\* one iteration of the loop over zip(collab.mint_timestamps,
\* collab.minted_objkts), which reads the lists as they are at this
\* iteration; an append to a list of MaxMinted elements raises MemoryError
AssociateObjkt ==
    /\ loop # None
    /\ raised = "None"
    /\ loop.index >= 1
    /\ loop.index <= Len(LoopCollab.mint_timestamps)
    /\ loop.index <= Len(LoopCollab.minted_objkts)
    /\ LET timestamp == LoopCollab.mint_timestamps[loop.index]
           objkt_id == LoopCollab.minted_objkts[loop.index]
       IN  IF objkt_id \notin LoopSigned
           THEN /\ loop' = [loop EXCEPT !.index = @ + 1]
                /\ UNCHANGED <<users, users_keys, id_to_address, raised,
                               events, table, distribution, calls, returned,
                               sources>>
           ELSE IF Len(LoopUser.minted_objkts) >= MaxMinted
                THEN /\ raised' = "MemoryError"
                     /\ UNCHANGED <<users, users_keys, id_to_address, events,
                                    table, distribution, calls, returned,
                                    sources, loop>>
                ELSE /\ LoopBecomes(ApplyMint(LoopUser, objkt_id, timestamp))
                     /\ loop' = [loop EXCEPT !.index = @ + 1]
                     /\ UNCHANGED raised

\* the end of the loop over the mints: "Add the money earned with the
\* collaboration"
AddShare ==
    /\ loop # None
    /\ raised = "None"
    /\ loop.index >= 1
    /\ \/ loop.index > Len(LoopCollab.mint_timestamps)
       \/ loop.index > Len(LoopCollab.minted_objkts)
    /\ LET collaboration == calls[1].collaboration
           shares == collaboration.shares[LoopUser.address]
       IN  LoopBecomes(
               [LoopUser EXCEPT
                   !.total_money_earned_collaborations_objkts =
                       @ + Share(LoopCollab.total_money_earned_own_objkts,
                                 shares, collaboration.totalShares),
                   !.total_money_earned =
                       @ + Share(LoopCollab.total_money_earned,
                                 shares, collaboration.totalShares)])
    /\ loop' = [user |-> loop.user + 1, index |-> 0]
    /\ UNCHANGED raised

\* TeiaUsers.add_artists_collaborations returns
ReturnCollaborations ==
    /\ loop # None
    /\ raised = "None"
    /\ events = 0
    /\ loop.index = 0
    /\ loop.user > Len(users_keys)
    /\ events' = 1
    /\ UNCHANGED <<users, users_keys, id_to_address, raised, table,
                   distribution, calls, returned, sources, loop>>

NextLoop ==
    \/ CallCollaborations
    \/ EnterCollaboration
    \/ AssociateObjkt
    \/ AddShare
    \/ ReturnCollaborations

\* the interpreter runs the call to its end
SpecLoop == InitLoop /\ [][NextLoop]_vars /\ WF_vars(NextLoop)

----------------------------------------------------------------------------
(* The users connections *)

\* objkt_creators: the creator of each OBJKT, in the order of the dictionary
objkt_creators == (1 :> "tz1X") @@ (2 :> "tz1Y") @@ (3 :> "KT1C")

\* swaps_bigmap[swap_id]["objkt_id"]
connections_swaps == (1 :> 1) @@ (2 :> 2) @@ (3 :> 3)

\* users: the H=N users and their aliases
connections_users == ("tz1X" :> "x")

\* the collect transactions: a swap id, bare or in a dictionary, and a sender
ConnectionsTransactions ==
    [swap_id : {1, 2, 3},
     in_dict : BOOLEAN,
     sender : {"tz1X", "tz1Y", "tz1Z", "KT1C"}]

\* the lists of at most two collect transactions
ConnectionsBatches ==
    {<<>>} \cup Batches(ConnectionsTransactions)
           \cup {<<first, second>> : first \in ConnectionsTransactions,
                                     second \in ConnectionsTransactions}

\* objktcom_collectors, in the order of the dictionary: the OBJKTs bought
\* with a bid, with an ask and in the auctions
ObjktcomCollectors ==
    {<<>>,
     <<[address |-> "tz1Y", alias |-> "y", bid_objkts |-> <<1>>,
        ask_objkts |-> <<1, 2>>, english_auction_objkts |-> <<>>,
        dutch_auction_objkts |-> <<3>>]>>,
     <<[address |-> "tz1X", alias |-> "", bid_objkts |-> <<>>,
        ask_objkts |-> <<2>>, english_auction_objkts |-> <<1>>,
        dutch_auction_objkts |-> <<>>],
       [address |-> "tz1Z", alias |-> "z", bid_objkts |-> <<2>>,
        ask_objkts |-> <<>>, english_auction_objkts |-> <<>>,
        dutch_auction_objkts |-> <<2>>]>>}

\* reported_users
ReportedUsers == {<<>>, <<"tz1Y", "tz1W">>}

\* a python dictionary of counts: its keys in the order of their insertion
EmptyCounts == [keys |-> <<>>, count |-> <<>>]

\* "if wallet in counts: counts[wallet] += 1, else: counts[wallet] = 1"
Increment(counts, wallet) ==
    IF wallet \in Elements(counts.keys)
    THEN [counts EXCEPT !.count[wallet] = @ + 1]
    ELSE [keys |-> Append(counts.keys, wallet),
          count |-> counts.count @@ (wallet :> 1)]

\* the alias of a wallet of users, or the one that is given
AliasOf(wallet, otherwise) ==
    IF wallet \in DOMAIN connections_users
    THEN connections_users[wallet]
    ELSE otherwise

\* a new entry of users_connections
NewConnection(connections, wallet, alias, artists) ==
    [keys |-> Append(connections.keys, wallet),
     entries |-> connections.entries @@
         (wallet :> [alias |-> alias,
                     artists |-> artists,
                     collectors |-> EmptyCounts,
                     reported |-> FALSE,
                     counter |-> Len(connections.keys)])]

\* "Add the artists wallets, since it could be that they might not have
\* connections from collect operations"
RECURSIVE AddCreators(_, _)
AddCreators(connections, objkt_id) ==
    IF objkt_id \notin DOMAIN objkt_creators
    THEN connections
    ELSE LET artist_wallet_id == objkt_creators[objkt_id]
         IN  AddCreators(
                 IF StartsWithKT(artist_wallet_id)
                 THEN connections
                 ELSE IF artist_wallet_id \notin Elements(connections.keys)
                      THEN NewConnection(connections, artist_wallet_id,
                                         AliasOf(artist_wallet_id, ""),
                                         EmptyCounts)
                      ELSE connections,
                 objkt_id + 1)

\* "Add the collector to the artist collectors list" and "Add the artist to
\* the collector artists list"
Connect(connections, artist_wallet_id, collector_wallet_id, alias) ==
    LET collected ==
            [connections EXCEPT
                !.entries[artist_wallet_id].collectors =
                    Increment(@, collector_wallet_id)]
    IN  IF collector_wallet_id \in Elements(collected.keys)
        THEN [collected EXCEPT
                 !.entries[collector_wallet_id].artists =
                     Increment(@, artist_wallet_id)]
        ELSE NewConnection(collected, collector_wallet_id,
                           AliasOf(collector_wallet_id, alias),
                           Increment(EmptyCounts, artist_wallet_id))

\* the loop over the collect transactions
RECURSIVE ConnectTransactions(_, _)
ConnectTransactions(connections, transactions) ==
    IF transactions = <<>>
    THEN connections
    ELSE LET transaction == Head(transactions)
             objkt_id == connections_swaps[transaction.swap_id]
             collector_wallet_id == transaction.sender
             artist_wallet_id == objkt_creators[objkt_id]
         IN  ConnectTransactions(
                 IF \/ StartsWithKT(artist_wallet_id)
                    \/ StartsWithKT(collector_wallet_id)
                 THEN connections
                 ELSE IF artist_wallet_id = collector_wallet_id
                      THEN connections
                      ELSE Connect(connections, artist_wallet_id,
                                   collector_wallet_id, ""),
                 Tail(transactions))

\* the OBJKTs of an objkt.com collector
ObjktIds(objktcom_collector) ==
    objktcom_collector.bid_objkts \o objktcom_collector.ask_objkts
        \o objktcom_collector.english_auction_objkts
        \o objktcom_collector.dutch_auction_objkts

\* "Loop over the collected OBJKT ids"
RECURSIVE ConnectObjkts(_, _, _)
ConnectObjkts(connections, objktcom_collector, objkt_ids) ==
    IF objkt_ids = <<>>
    THEN connections
    ELSE LET artist_wallet_id == objkt_creators[Head(objkt_ids)]
         IN  ConnectObjkts(
                 IF StartsWithKT(artist_wallet_id)
                 THEN connections
                 ELSE IF artist_wallet_id = objktcom_collector.address
                      THEN connections
                      ELSE Connect(connections, artist_wallet_id,
                                   objktcom_collector.address,
                                   objktcom_collector.alias),
                 objktcom_collector,
                 Tail(objkt_ids))

\* the loop over objktcom_collectors
RECURSIVE ConnectObjktcom(_, _)
ConnectObjktcom(connections, objktcom_collectors) ==
    IF objktcom_collectors = <<>>
    THEN connections
    ELSE ConnectObjktcom(
             ConnectObjkts(connections, Head(objktcom_collectors),
                           ObjktIds(Head(objktcom_collectors))),
             Tail(objktcom_collectors))

\* "Fill the reported user information"
FillReported(connections, reported_users) ==
    [connections EXCEPT !.entries =
        [wallet \in DOMAIN @ |->
            IF wallet \in Elements(reported_users)
            THEN [@[wallet] EXCEPT !.reported = TRUE]
            ELSE @[wallet]]]

\* the elements of a list that pass a test, in the order of the list
Filter(list, passing) == SelectSeq(list, LAMBDA wallet : wallet \in passing)

\* the weight of a wallet in both roles is its count as an artist alone
ProcessConnection_unsummed(user) ==
    LET artists_and_collectors_wallets ==
            Filter(user.artists.keys, Elements(user.collectors.keys))
        artists_wallets ==
            Filter(user.artists.keys,
                   Elements(user.artists.keys)
                       \ Elements(user.collectors.keys))
        collectors_wallets ==
            Filter(user.collectors.keys,
                   Elements(user.collectors.keys)
                       \ Elements(user.artists.keys))
    IN  [alias |-> user.alias,
         reported |-> user.reported,
         counter |-> user.counter,
         artists_and_collectors |-> artists_and_collectors_wallets,
         artists_and_collectors_weights |->
             [i \in DOMAIN artists_and_collectors_wallets |->
                 user.artists.count[artists_and_collectors_wallets[i]]],
         artists |-> artists_wallets,
         artists_weights |->
             [i \in DOMAIN artists_wallets |->
                 user.artists.count[artists_wallets[i]]],
         collectors |-> collectors_wallets,
         collectors_weights |->
             [i \in DOMAIN collectors_wallets |->
                 user.collectors.count[collectors_wallets[i]]]]

\* "Process the connections information to a different format", for one user
ProcessConnection(user) ==
    LET artists_and_collectors_wallets ==
            Filter(user.artists.keys, Elements(user.collectors.keys))
        artists_wallets ==
            Filter(user.artists.keys,
                   Elements(user.artists.keys)
                       \ Elements(user.collectors.keys))
        collectors_wallets ==
            Filter(user.collectors.keys,
                   Elements(user.collectors.keys)
                       \ Elements(user.artists.keys))
    IN  [alias |-> user.alias,
         reported |-> user.reported,
         counter |-> user.counter,
         artists_and_collectors |-> artists_and_collectors_wallets,
         artists_and_collectors_weights |->
             [i \in DOMAIN artists_and_collectors_wallets |->
                 user.artists.count[artists_and_collectors_wallets[i]]
                     + user.collectors.count[
                           artists_and_collectors_wallets[i]]],
         artists |-> artists_wallets,
         artists_weights |->
             [i \in DOMAIN artists_wallets |->
                 user.artists.count[artists_wallets[i]]],
         collectors |-> collectors_wallets,
         collectors_weights |->
             [i \in DOMAIN collectors_wallets |->
                 user.collectors.count[collectors_wallets[i]]]]

\* "Create the serialized users connections"
Serialized(connections) ==
    [counter \in {connections.entries[wallet].counter :
                      wallet \in DOMAIN connections.entries} |->
        LET wallet_id ==
                CHOOSE wallet \in DOMAIN connections.entries :
                    connections.entries[wallet].counter = counter
            user == connections.entries[wallet_id]
            Counters(wallets) ==
                [i \in DOMAIN wallets |->
                    connections.entries[wallets[i]].counter]
        IN  [wallet |-> wallet_id,
             alias |-> user.alias,
             artists_and_collectors |-> Counters(user.artists_and_collectors),
             artists_and_collectors_weights |->
                 user.artists_and_collectors_weights,
             artists |-> Counters(user.artists),
             artists_weights |-> user.artists_weights,
             collectors |-> Counters(user.collectors),
             collectors_weights |-> user.collectors_weights,
             reported |-> user.reported]]

\* extract_users_connections: the users connections and their serialized
\* version
extract_users_connections(transactions, objktcom_collectors, reported_users) ==
    LET connected ==
            FillReported(
                ConnectObjktcom(
                    ConnectTransactions(
                        AddCreators([keys |-> <<>>, entries |-> <<>>], 1),
                        transactions),
                    objktcom_collectors),
                reported_users)
        users_connections ==
            [connected EXCEPT !.entries =
                [wallet \in DOMAIN @ |-> ProcessConnection(@[wallet])]]
    IN  [users_connections |-> users_connections,
         serialized_users_connections |-> Serialized(users_connections)]

\* the arguments of a call of extract_users_connections
InitConnections ==
    /\ users = <<>>
    /\ users_keys = <<>>
    /\ id_to_address = <<>>
    /\ raised = "None"
    /\ events = 0
    /\ table = <<>>
    /\ distribution = None
    /\ \E transactions \in ConnectionsBatches :
         \E objktcom_collectors \in ObjktcomCollectors :
            \E reported_users \in ReportedUsers :
                calls = <<[op |-> "extract_users_connections",
                           transactions |-> transactions,
                           objktcom_collectors |-> objktcom_collectors,
                           reported_users |-> reported_users]>>
    /\ returned = None
    /\ sources = None
    /\ loop = None

\* extract_users_connections is called and returns
ExtractUsersConnections ==
    /\ returned = None
    /\ returned' = extract_users_connections(
                       calls[1].transactions, calls[1].objktcom_collectors,
                       calls[1].reported_users)
    /\ UNCHANGED <<users, users_keys, id_to_address, raised, events, table,
                   distribution, calls, sources, loop>>

SpecConnections == InitConnections /\ [][ExtractUsersConnections]_vars

----------------------------------------------------------------------------
(* The profiles information *)

\* a Python str: the list of its characters
Str(characters) == [str |-> characters]

\* str.strip(), on the characters
RECURSIVE StripLeft(_)
StripLeft(characters) ==
    IF characters # <<>> /\ Head(characters) = " "
    THEN StripLeft(Tail(characters))
    ELSE characters

RECURSIVE StripRight(_)
StripRight(characters) ==
    IF characters # <<>> /\ characters[Len(characters)] = " "
    THEN StripRight(SubSeq(characters, 1, Len(characters) - 1))
    ELSE characters

Strip(characters) == StripRight(StripLeft(characters))

\* str.replace(old, new) for one character old and one character new
Replace(characters, old, new) ==
    [i \in DOMAIN characters |->
        IF characters[i] = old THEN new ELSE characters[i]]

\* str.replace(old, "") for one character old
Remove(characters, old) ==
    LET Other(character) == character # old
    IN  SelectSeq(characters, Other)

\* str.replace("/n", " ")
RECURSIVE ReplaceSlashN(_)
ReplaceSlashN(characters) ==
    IF characters = <<>>
    THEN <<>>
    ELSE IF /\ Len(characters) >= 2
            /\ characters[1] = "/"
            /\ characters[2] = "n"
         THEN <<" ">> \o ReplaceSlashN(SubSeq(characters, 3, Len(characters)))
         ELSE <<Head(characters)>> \o ReplaceSlashN(Tail(characters))

\* str[:36]
First36(characters) ==
    SubSeq(characters, 1, IF Len(characters) < 36 THEN Len(characters) ELSE 36)

\* str.split("?")[0]
RECURSIVE BeforeQuestionMark(_)
BeforeQuestionMark(characters) ==
    IF characters = <<>> \/ Head(characters) = "?"
    THEN <<>>
    ELSE <<Head(characters)>> \o BeforeQuestionMark(Tail(characters))

\* the discord handle: replace('"', ""), replace(",", " "), strip()
Discord(characters) == Strip(Replace(Remove(characters, "\""), ",", " "))

\* "if self.address in fxhash_usernames"
ProfileFromFxhash(self, fxhash_usernames) ==
    IF self.address \in DOMAIN fxhash_usernames
    THEN LET fxhash_username ==
                 Strip(First36(ReplaceSlashN(Replace(
                     Strip(fxhash_usernames[self.address].str), ",", " "))))
         IN  [self EXCEPT
                !.fxhash_username = Str(fxhash_username),
                !.username = IF Len(fxhash_username) > 0
                             THEN Str(fxhash_username) ELSE @]
    ELSE self

\* "for domain in tezos_domains"
RECURSIVE ProfileFromDomains(_, _)
ProfileFromDomains(self, tezos_domains) ==
    IF tezos_domains = <<>>
    THEN self
    ELSE LET domain == Head(tezos_domains)
         IN  ProfileFromDomains(
                 IF self.address = domain.address
                 THEN [self EXCEPT
                        !.tezos_domains = Append(@, domain.domain),
                        !.username = IF @ = None THEN domain.domain ELSE @,
                        !.twitter =
                            IF "twitter:handle" \in DOMAIN domain.data
                               /\ @ = None
                            THEN domain.data["twitter:handle"] ELSE @]
                 ELSE self,
                 Tail(tezos_domains))

\* the keys of the tzkt metadata that make a user a verified one
TzktVerifications ==
    {"twitter", "discord", "github", "gitlab", "facebook", "reddit",
     "instagram"}

\* the tzkt alias as a name that an earlier name is kept over
ProfileFromTzktUnlessNamed(self, metadata) ==
    LET tzkt_username == Strip(metadata.alias.str)
    IN  [self EXCEPT
            !.tzkt_metadata = metadata,
            !.tzkt_username = Str(tzkt_username),
            !.username = IF Len(tzkt_username) > 0 /\ @ = None
                         THEN Str(tzkt_username) ELSE @]

\* "if len(tzkt_metadata[self.address]) > 0", once the metadata holds the
\* address and an alias
ProfileFromTzkt(self, metadata) ==
    LET tzkt_username == Strip(metadata.alias.str)
    IN  [self EXCEPT
            !.tzkt_metadata = metadata,
            !.tzkt_username = Str(tzkt_username),
            !.username = IF Len(tzkt_username) > 0
                         THEN Str(tzkt_username) ELSE @,
            !.twitter = IF "twitter" \in DOMAIN metadata
                        THEN Str(BeforeQuestionMark(metadata.twitter.str))
                        ELSE @,
            !.discord = IF "discord" \in DOMAIN metadata
                        THEN Str(Discord(metadata.discord.str)) ELSE @,
            !.verified = @ \/ (DOMAIN metadata \cap TzktVerifications # {})]

\* the tzprofiles username: the first of the fields that is not None
TzprofilesUsername(self, tzprofile) ==
    IF tzprofile.alias # None THEN Str(Strip(tzprofile.alias.str))
    ELSE IF tzprofile.twitter # None THEN Str(Strip(tzprofile.twitter.str))
    ELSE IF tzprofile.discord # None THEN Str(Strip(tzprofile.discord.str))
    ELSE IF tzprofile.github # None THEN Str(Strip(tzprofile.github.str))
    ELSE IF tzprofile.domain_name # None
         THEN Str(Strip(tzprofile.domain_name.str))
    ELSE IF tzprofile.ethereum # None
         THEN Str(Strip(tzprofile.ethereum.str))
    ELSE self.tzprofiles_username

\* "if self.address in tzprofiles"
ProfileFromTzprofiles(self, tzprofiles) ==
    IF self.address \in DOMAIN tzprofiles
    THEN LET tzprofile == tzprofiles[self.address]
             tzprofiles_username == TzprofilesUsername(self, tzprofile)
         IN  [self EXCEPT
                !.tzprofile = tzprofile,
                !.tzprofiles_username = tzprofiles_username,
                !.username =
                    IF tzprofiles_username # None
                       /\ Len(tzprofiles_username.str) > 0
                    THEN tzprofiles_username ELSE @,
                !.twitter = IF tzprofile.twitter # None
                            THEN tzprofile.twitter ELSE @,
                !.discord = IF tzprofile.discord # None
                            THEN Str(Discord(tzprofile.discord.str)) ELSE @,
                !.verified = \/ @
                             \/ tzprofile.twitter # None
                             \/ tzprofile.discord # None
                             \/ tzprofile.github # None
                             \/ tzprofile.domain_name # None
                             \/ tzprofile.ethereum # None]
    ELSE self

\* "if self.address in registries_bigmap"
ProfileFromRegistries(self, registries_bigmap) ==
    IF self.address \in DOMAIN registries_bigmap
    THEN LET hen_username == Strip(registries_bigmap[self.address].user.str)
         IN  [self EXCEPT
                !.hen_username = Str(hen_username),
                !.username = IF Len(hen_username) > 0
                             THEN Str(hen_username) ELSE @]
    ELSE self

\* TeiaUser.set_profiles_information.  tzkt_metadata[self.address] raises
\* KeyError for an address the metadata does not hold, and
\* self.tzkt_metadata["alias"] for metadata without an alias, after the
\* metadata is stored in the profile.
set_profiles_information(self, registries_bigmap, tzprofiles, tzkt_metadata, tezos_domains_owners, fxhash_usernames) ==
    LET named == ProfileFromFxhash(self, fxhash_usernames)
        owner == IF self.address \in DOMAIN tezos_domains_owners
                 THEN ProfileFromDomains(
                          named, tezos_domains_owners[self.address])
                 ELSE named
    IN  IF self.address \notin DOMAIN tzkt_metadata
        THEN [user |-> owner, raised |-> "KeyError"]
        ELSE LET metadata == tzkt_metadata[self.address]
             IN  IF DOMAIN metadata # {} /\ "alias" \notin DOMAIN metadata
                 THEN [user |-> [owner EXCEPT !.tzkt_metadata = metadata],
                       raised |-> "KeyError"]
                 ELSE [user |->
                          ProfileFromRegistries(
                              ProfileFromTzprofiles(
                                  IF DOMAIN metadata # {}
                                  THEN ProfileFromTzkt(owner, metadata)
                                  ELSE owner,
                                  tzprofiles),
                              registries_bigmap),
                       raised |-> "None"]

\* TeiaUsers.add_profiles_information: the loop over self.users.items(),
\* which the first KeyError ends
RECURSIVE ProfilesLoop(_, _, _)
ProfilesLoop(self, order, given) ==
    IF order = <<>>
    THEN [registry |-> self, raised |-> "None"]
    ELSE LET done == set_profiles_information(
                         self.users[Head(order)], given.registries_bigmap,
                         given.tzprofiles, given.tzkt_metadata,
                         given.tezos_domains_owners, given.fxhash_usernames)
             next == WithUser(self, Head(order), done.user)
         IN  IF done.raised # "None"
             THEN [registry |-> next, raised |-> done.raised]
             ELSE ProfilesLoop(next, Tail(order), given)

add_profiles_information(self, given) ==
    ProfilesLoop(self, UsersOrder(self), given)

\* the fxhash usernames: none for tz1X, a blank one, one with a comma
FxhashUsernames ==
    {<<>>, ("tz1X" :> Str(<<" ">>)),
     ("tz1X" :> Str(<<" ", "f", ",", "x", " ">>))}

\* the tezos domains: none for tz1X, a list that holds a domain of another
\* address only, a list that holds a domain of tz1X with a twitter handle
TezosDomainsOwners ==
    {<<>>,
     ("tz1X" :> <<[address |-> "tz1Y", domain |-> Str(<<"y">>),
                   data |-> <<>>]>>),
     ("tz1X" :> <<[address |-> "tz1Y", domain |-> Str(<<"y">>),
                   data |-> <<>>],
                  [address |-> "tz1X", domain |-> Str(<<"d">>),
                   data |-> ("twitter:handle" :> Str(<<"w">>))]>>)}

\* the tzkt metadata: none for tz1X, empty, with a blank alias, with an
\* alias, with accounts and no alias, with an alias and accounts
TzktMetadata ==
    {<<>>, ("tz1X" :> <<>>),
     ("tz1X" :> [alias |-> Str(<<" ">>)]),
     ("tz1X" :> [alias |-> Str(<<"k", " ">>)]),
     ("tz1X" :> [twitter |-> Str(<<"t", "?", "s">>)]),
     ("tz1X" :> [alias |-> Str(<<"k">>), twitter |-> Str(<<"t", "?", "s">>),
                 discord |-> Str(<<"\"", "c", ",">>)])}

\* a tzprofile with every field None
NoTzprofile ==
    [alias |-> None, twitter |-> None, discord |-> None, github |-> None,
     domain_name |-> None, ethereum |-> None]

\* the tzprofiles: none for tz1X, one with every field None, with a blank
\* alias and a twitter account, with a twitter account only, with an alias
\* and a discord account
Tzprofiles ==
    {<<>>, ("tz1X" :> NoTzprofile),
     ("tz1X" :> [NoTzprofile EXCEPT !.alias = Str(<<" ">>),
                                    !.twitter = Str(<<"p">>)]),
     ("tz1X" :> [NoTzprofile EXCEPT !.twitter = Str(<<" ", "p">>)]),
     ("tz1X" :> [NoTzprofile EXCEPT !.alias = Str(<<"a">>),
                                    !.discord = Str(<<"c", ",", "c">>)])}

\* the H=N registries bigmap: no entry for tz1X, a blank name, a name
RegistriesBigmaps ==
    {<<>>, ("tz1X" :> [user |-> Str(<<" ">>)]),
     ("tz1X" :> [user |-> Str(<<" ", "h", " ">>)])}

\* the identity sources that add_profiles_information is called with
Sources ==
    [registries_bigmap : RegistriesBigmaps, tzprofiles : Tzprofiles,
     tzkt_metadata : TzktMetadata, tezos_domains_owners : TezosDomainsOwners,
     fxhash_usernames : FxhashUsernames]

\* a registry that holds tz1X, and the sources of a run
InitProfiles ==
    /\ \E mint \in MintTransactions :
        /\ mint.sender = "tz1X"
        /\ users = add_mint_transactions(EmptyUsers, <<mint>>).users
        /\ users_keys = add_mint_transactions(EmptyUsers, <<mint>>).keys
        /\ id_to_address =
               add_mint_transactions(EmptyUsers, <<mint>>).id_to_address
    /\ raised = "None"
    /\ events = 0
    /\ table = <<>>
    /\ distribution = None
    /\ calls = <<>>
    /\ returned = None
    /\ sources \in Sources
    /\ loop = None

AddProfilesInformation ==
    LET done == add_profiles_information(Registry, sources)
    IN  /\ raised = "None"
        /\ events = 0
        /\ users' = done.registry.users
        /\ users_keys' = done.registry.keys
        /\ id_to_address' = done.registry.id_to_address
        /\ raised' = done.raised
        /\ events' = 1
        /\ UNCHANGED <<table, distribution, calls, returned, sources, loop>>

SpecProfiles == InitProfiles /\ [][AddProfilesInformation]_vars

----------------------------------------------------------------------------
(* teiaUtils/queryUtils.py: get_all_transactions *)

\* the transaction types that the scripts ask for, as lists of characters
mint == <<"m", "i", "n", "t">>
mint_OBJKT == <<"m", "i", "n", "t", "_", "O", "B", "J", "K", "T">>
hen_collect == <<"h", "e", "n", "_", "c", "o", "l", "l", "e", "c", "t">>
hen_swap == <<"h", "e", "n", "_", "s", "w", "a", "p">>
hen_cancel_swap == <<"h", "e", "n", "_", "c", "a", "n", "c", "e", "l", "_", "s", "w", "a", "p">>
teia_collect == <<"t", "e", "i", "a", "_", "c", "o", "l", "l", "e", "c", "t">>
teia_swap == <<"t", "e", "i", "a", "_", "s", "w", "a", "p">>
teia_cancel_swap == <<"t", "e", "i", "a", "_", "c", "a", "n", "c", "e", "l", "_", "s", "w", "a", "p">>
claim == <<"c", "l", "a", "i", "m">>

\* "a in b" for two Python str
IsSubstring(a, b) ==
    \E i \in 0..(Len(b) - Len(a)) : SubSeq(b, i + 1, i + Len(a)) = a

\* str.replace(old, ""), for a non-empty old
RECURSIVE Without(_, _)
Without(characters, old) ==
    IF Len(characters) < Len(old)
    THEN characters
    ELSE IF SubSeq(characters, 1, Len(old)) = old
         THEN Without(SubSeq(characters, Len(old) + 1, Len(characters)), old)
         ELSE <<Head(characters)>> \o Without(Tail(characters), old)

\* the slices of a str
Slices(characters) ==
    {SubSeq(characters, i, j) :
        i \in 1..(Len(characters) + 1), j \in 0..Len(characters)}

\* the type arguments: the types of the scripts, their slices, and types that
\* differ from them by case or by one more character
TypeStrings ==
    UNION {Slices(type) :
              type \in {mint, mint_OBJKT, hen_collect, hen_swap,
                        hen_cancel_swap, teia_collect, teia_swap,
                        teia_cancel_swap, claim}}
    \cup {<<"M", "i", "n", "t">>, <<"m", "i", "n", "t", "s">>, <<"h", "e", "n", "_", "m", "i", "n", "t">>}

\* the largest number of full batches that the API returns for a contract
MaxBatches == 1

\* the downloads of one contract: a batch at every offset, up to the first
\* batch that is not full
ContractBatches(entrypoint, contract, full) ==
    [counter \in 1..(full + 1) |->
        [entrypoint |-> Str(entrypoint), contract |-> contract,
         offset |-> counter - 1]]

RECURSIVE Downloads(_, _, _)
Downloads(entrypoint, contracts, full) ==
    IF contracts = <<>>
    THEN <<>>
    ELSE ContractBatches(entrypoint, Head(contracts),
                         full[Len(full) - Len(contracts) + 1])
         \o Downloads(entrypoint, Tail(contracts), full)

\* get_all_transactions: the contracts and the entrypoint of a type, then the
\* file reads or queries of every contract; full[i] is the number of full
\* batches of the i-th contract
get_all_transactions(type, full) ==
    IF IsSubstring(type, mint)
    THEN [raised |-> "None",
          queries |-> Downloads(
              type, <<"KT1RJ6PbjHpwc3M5rw5s2Nbmefwbuwbdxton">>, full)]
    ELSE IF IsSubstring(type, mint_OBJKT)
    THEN [raised |-> "None",
          queries |-> Downloads(
              type, <<"KT1Hkg5qeNhfwpKW4fXvq7HGZB9z2EnmCCA9">>, full)]
    ELSE IF type \in {hen_collect, hen_swap, hen_cancel_swap}
    THEN [raised |-> "None",
          queries |-> Downloads(
              Without(type, <<"h", "e", "n", "_">>),
              <<"KT1Hkg5qeNhfwpKW4fXvq7HGZB9z2EnmCCA9", HenMarketplace>>,
              full)]
    ELSE IF type \in {teia_collect, teia_swap, teia_cancel_swap}
    THEN [raised |-> "None",
          queries |-> Downloads(
              Without(type, <<"t", "e", "i", "a", "_">>),
              <<TeiaMarketplace>>, full)]
    ELSE [raised |-> "ValueError", queries |-> <<>>]

\* one call of get_all_transactions; calls keeps the argument, returned the
\* file reads and queries that the call made
GetAllTransactions ==
    \E type \in TypeStrings, full \in [1..2 -> 0..MaxBatches] :
        LET done == get_all_transactions(type, full)
        IN  /\ raised = "None"
            /\ events < MaxEvents
            /\ calls = <<>>
            /\ calls' = <<[call |-> "get_all_transactions",
                           type |-> Str(type)]>>
            /\ returned' = [queries |-> done.queries]
            /\ raised' = done.raised
            /\ events' = events + 1
            /\ UNCHANGED <<users, users_keys, id_to_address, table,
                           distribution, sources, loop>>

SpecTransactions == Init /\ [][GetAllTransactions]_vars

----------------------------------------------------------------------------
(* scripts/tokenDistribution.py *)

\* the rows of teia_users.csv: the columns the script reads.  The columns
\* the script takes the square root of hold perfect squares.
Rows ==
    {[restricted |-> restricted, has_profile |-> has_profile,
      verified |-> verified, wash_trader |-> wash_trader,
      contribution_level |-> contribution_level, hdao |-> hdao,
      active_days |-> active_days, teia_active_days |-> teia_active_days,
      teia_votes |-> teia_votes,
      minted_objkts |-> minted, money_earned_own_objkts |-> 4 * minted,
      collected_objkts |-> IF money_spent > 0 THEN 4 ELSE 0,
      connections_to_users |-> IF minted + money_spent > 0 THEN 1 ELSE 0,
      money_spent |-> money_spent] :
        restricted \in BOOLEAN, has_profile \in BOOLEAN,
        verified \in BOOLEAN, wash_trader \in BOOLEAN,
        contribution_level \in {0, 1}, hdao \in {0, 1000},
        active_days \in {1, 14}, teia_active_days \in {0, 1},
        teia_votes \in {0, 1}, minted \in {0, 1},
        money_spent \in {0, 900, 1024}}

\* the rows a table holds after its first row: active, voting users with a
\* profile
OtherRows ==
    {row \in Rows :
        /\ row.has_profile /\ ~row.verified /\ ~row.restricted
        /\ ~row.wash_trader /\ row.contribution_level = 0 /\ row.hdao = 0
        /\ row.active_days = 14 /\ row.teia_active_days = 1
        /\ row.teia_votes = 1}

\* the tables the script is run on
Tables ==
    {<<row>> : row \in Rows} \cup
    {<<row, other>> : row \in Rows, other \in OtherRows}

\* "Remove restricted users"
RECURSIVE NotRestricted(_)
NotRestricted(rows) ==
    IF rows = <<>> THEN <<>>
    ELSE (IF Head(rows).restricted THEN <<>> ELSE <<Head(rows)>>)
             \o NotRestricted(Tail(rows))

\* scaling_factor with the floor applied after the bump of the contributors
scaling_factor_floor_last(row) ==
    LET registered == IF row.has_profile THEN 2 ELSE 1
        verified == IF row.verified THEN 3 ELSE registered
        contributor == IF row.contribution_level > 0 THEN 3 ELSE verified
    IN  IF /\ row.active_days < 14
           /\ row.teia_votes = 0
           /\ row.money_spent < 1000
        THEN 0 ELSE contributor

\* the scaling factor of a user: the assignments to sf, in their order
scaling_factor(row) ==
    LET registered == IF row.has_profile THEN 2 ELSE 1
        verified == IF row.verified THEN 3 ELSE registered
        filtered == IF /\ row.active_days < 14
                       /\ row.teia_votes = 0
                       /\ row.money_spent < 1000
                    THEN 0 ELSE verified
    IN  IF row.contribution_level > 0 THEN 3 ELSE filtered

\* "the total amount of tokens that will be distributed"
total_amount == 5500000

\* "the amount of tokens reserved for the DAO treasury"
treasury_amount == 350000

\* pow(0.5) of a perfect square
Sqrt(n) == CHOOSE r \in 0..n : r * r = n

\* the sum of f[i] over the indices of f
RECURSIVE Sum(_)
Sum(f) ==
    IF DOMAIN f = {} THEN 0
    ELSE LET i == CHOOSE i \in DOMAIN f : TRUE
         IN  f[i] + Sum([j \in DOMAIN f \ {i} |-> f[j]])

\* the components of the distribution
Components ==
    {"activity", "teia_activity", "voting", "minting", "collecting",
     "connections", "earnings", "spending", "contribution"}

\* the weight of a component, in hundredths
Weight(component) ==
    CASE component = "activity" -> 15
      [] component = "teia_activity" -> 15
      [] component = "voting" -> 10
      [] component = "minting" -> 6
      [] component = "collecting" -> 8
      [] component = "connections" -> 6
      [] component = "earnings" -> 15
      [] component = "spending" -> 15
      [] component = "contribution" -> 8

\* ~users["wash_trader"], as the factor 1 or 0
NotWashTrader(row) == IF row.wash_trader THEN 0 ELSE 1

\* the value of "amount" for a component and a user, before normalisation
Amount(component, row) ==
    LET sf == scaling_factor(row)
    IN  CASE component = "activity" -> sf * row.active_days
          [] component = "teia_activity" -> sf * row.teia_active_days
          [] component = "voting" -> sf * Sqrt(row.teia_votes)
          [] component = "minting" -> sf * Sqrt(row.minted_objkts)
          [] component = "collecting" -> sf * Sqrt(row.collected_objkts)
          [] component = "connections" ->
                sf * Sqrt(row.connections_to_users)
          [] component = "earnings" ->
                sf * NotWashTrader(row) * Sqrt(row.money_earned_own_objkts)
          [] component = "spending" ->
                sf * NotWashTrader(row) * Sqrt(row.money_spent)
          [] component = "contribution" -> sf * row.contribution_level

\* the script on a table.  A <component>_amount column holds, for each user,
\* the fraction weight * amount / amount.sum() of total_activity_amount as
\* the pair num / den; den = 0 is the NaN that the division of 0 by 0
\* leaves.  The rows keep the order of the table (the last sort by
\* total_amount is not modelled).
Distribute(rows) ==
    LET kept == NotRestricted(rows)
        hdao_sum == Sum([i \in DOMAIN kept |-> kept[i].hdao])
    IN  [users |-> kept,
         scaling_factor |-> [i \in DOMAIN kept |-> scaling_factor(kept[i])],
         total_activity_amount |-> total_amount - treasury_amount - hdao_sum,
         amount |->
            [component \in Components |->
                LET amount == [i \in DOMAIN kept |->
                                  Amount(component, kept[i])]
                IN  [i \in DOMAIN kept |->
                        [num |-> Weight(component) * amount[i],
                         den |-> 100 * Sum(amount)]]],
         hdao_amount |-> [i \in DOMAIN kept |-> kept[i].hdao]]

InitDistribution ==
    /\ users = EmptyUsers.users
    /\ users_keys = EmptyUsers.keys
    /\ id_to_address = EmptyUsers.id_to_address
    /\ loop = None
    /\ raised = "None"
    /\ events = 0
    /\ table \in Tables
    /\ distribution = None
    /\ calls = <<>>
    /\ returned = None
    /\ sources = None

TokenDistribution ==
    /\ distribution = None
    /\ distribution' = Distribute(table)
    /\ UNCHANGED <<users, users_keys, id_to_address, raised, events, table,
                   calls, returned, sources, loop>>

SpecDistribution == InitDistribution /\ [][TokenDistribution]_vars

----------------------------------------------------------------------------
(* Properties *)

\* the value of dict.get(key, 0)
Get(connections, key) ==
    IF key \in DOMAIN connections THEN connections[key] ELSE 0

\* the least and the greatest element of a non-empty list of timestamps
Min(list) == CHOOSE x \in Elements(list) : \A y \in Elements(list) : x <= y

Max(list) == CHOOSE x \in Elements(list) : \A y \in Elements(list) : x >= y

\* C1: under mint, collect and swap ingestion, a profile that has received a
\* mint has the type artist in every later state, whatever collects and
\* swaps it takes part in.
C1_ArtistAfterMint ==
    \A a \in DOMAIN users :
        Len(users[a].mint_timestamps) > 0 => users[a].type = "artist"

\* a profile that minted, then sold, collected and swapped
C1_Witness ==
    \E a \in DOMAIN users :
        /\ Len(users[a].mint_timestamps) > 0
        /\ Len(users[a].collect_timestamps) > 0
        /\ Len(users[a].swap_timestamps) > 0
        /\ users[a].type = "artist"

\* C2: for every profile the total money earned is the sum of the money
\* earned with its own OBJKTs, with other OBJKTs and with collaborations.
C2_EarningsDecomposition ==
    \A a \in DOMAIN users :
        users[a].total_money_earned =
            users[a].total_money_earned_own_objkts
            + users[a].total_money_earned_other_objkts
            + users[a].total_money_earned_collaborations_objkts

\* the number of collects by collector of OBJKTs whose creator is creator
Collects(collector, creator) ==
    Cardinality({i \in DOMAIN users[collector].collected_objkts :
        royalties[users[collector].collected_objkts[i]].issuer = creator})

\* the keys of a connections dict are all addresses, or all user ids
AddressKeyed(connections) ==
    \A key \in DOMAIN connections : DOMAIN key = {"address"}

IdKeyed(connections) ==
    \A key \in DOMAIN connections : DOMAIN key = {"id"}

\* no connections dict of the registry has been compressed
Uncompressed ==
    \A a \in DOMAIN users :
        /\ AddressKeyed(users[a].artist_connections)
        /\ AddressKeyed(users[a].collector_connections)

\* C4: as long as the connections are keyed by addresses, for every two
\* profiles A and B, A.collector_connections[B] and B.artist_connections[A]
\* (0 for an absent key) both are the number of collects by B of OBJKTs
\* created by A; and a compress_user_connections of such a registry leaves
\* every dict keyed by user ids only, with that same number under B's id in
\* A.collector_connections and under A's id in B.artist_connections.
C4_ConnectionSymmetry ==
    /\ [](Uncompressed =>
            \A A \in DOMAIN users : \A B \in DOMAIN users :
                /\ Get(users[A].collector_connections, AddressKey(B))
                       = Collects(B, A)
                /\ Get(users[B].artist_connections, AddressKey(A))
                       = Collects(B, A))
    /\ [][(Uncompressed /\ CompressUserConnections) =>
            /\ raised' = "None"
            /\ \A A \in DOMAIN users :
                /\ IdKeyed(users'[A].collector_connections)
                /\ IdKeyed(users'[A].artist_connections)
                /\ \A B \in DOMAIN users :
                    /\ Get(users'[A].collector_connections,
                           IdKey(users[B].id)) = Collects(B, A)
                    /\ Get(users'[B].artist_connections,
                           IdKey(users[A].id)) = Collects(B, A)]_vars

\* a compressed registry in which a collector collected twice from a creator
C4_Witness ==
    \E A \in DOMAIN users : \E B \in DOMAIN users :
        /\ A # B
        /\ Collects(B, A) = 2
        /\ users[A].collector_connections = (IdKey(users[B].id) :> 2)
        /\ users[B].artist_connections = (IdKey(users[A].id) :> 2)

\* C5: the registry holds one profile for each address it has created one
\* for (the id index has one entry for each creation, and leads from the id
\* of each profile back to its address), and a step never removes or
\* replaces a profile: its id stays and its lists never shrink.
C5_IdempotentCreation ==
    /\ [](/\ Cardinality(DOMAIN id_to_address) = Cardinality(DOMAIN users)
          /\ \A a \in DOMAIN users :
                /\ users[a].address = a
                /\ users[a].id \in DOMAIN id_to_address
                /\ id_to_address[users[a].id] = a)
    /\ [][\A a \in DOMAIN users :
            /\ a \in DOMAIN users'
            /\ users'[a].id = users[a].id
            /\ Len(users'[a].mint_timestamps) >= Len(users[a].mint_timestamps)
            /\ Len(users'[a].collect_timestamps)
                   >= Len(users[a].collect_timestamps)
            /\ Len(users'[a].swap_timestamps)
                   >= Len(users[a].swap_timestamps)]_vars

\* an address ingested three times, by a mint, an hDAO snapshot and a
\* collect, in a registry that holds a second address
C5_Witness ==
    \E a \in DOMAIN users :
        /\ Len(users[a].mint_timestamps) = 1
        /\ users[a].hdao > 0
        /\ Len(users[a].money_earned_own_objkts) = 2
        /\ Cardinality(DOMAIN users) = 2
        /\ Cardinality(DOMAIN id_to_address) = 2

\* the scenario of C6: one mint by tz1X of OBJKT 1 (royalties 100), then one
\* collect by tz1Y of swap 1 (by tz1X, of OBJKT 1) for 100000000 mutez
Scenario ==
    /\ events = 2
    /\ DOMAIN users = {"tz1X", "tz1Y"}
    /\ users["tz1X"].minted_objkts = <<1>>
    /\ users["tz1Y"].collected_objkts = <<1>>
    /\ users["tz1Y"].money_spent = <<100000000>>

\* the outcome of the scenario but for the money tz1X earned
ScenarioOutcome ==
    /\ users["tz1X"].type = "artist"
    /\ users["tz1Y"].type = "patron"
    /\ users["tz1Y"].total_money_spent = 100000000
    /\ users["tz1X"].collector_connections = (AddressKey("tz1Y") :> 1)
    /\ users["tz1Y"].artist_connections = (AddressKey("tz1X") :> 1)

\* C6 as stated: after the scenario tz1X has earned 107.5 tez with its own
\* OBJKTs, tz1X is an artist, tz1Y a patron that spent 100 tez, and each has
\* one connection to the other.
C6_AsStated ==
    Scenario =>
        /\ ScenarioOutcome
        /\ users["tz1X"].total_money_earned_own_objkts = 107500000

\* C6, amended: after the scenario tz1X has earned 97.5 tez with its own
\* OBJKTs (10.0 tez of royalties and a seller margin of 87.5 tez), tz1X is
\* an artist, tz1Y a patron that spent 100 tez, and each has one connection
\* to the other.
C6_Scenario ==
    Scenario =>
        /\ ScenarioOutcome
        /\ users["tz1X"].money_earned_own_objkts = <<10000000, 87500000>>
        /\ users["tz1X"].total_money_earned_own_objkts = 97500000

C6_Witness == Scenario /\ users["tz1X"].total_money_earned = 97500000

\* the addresses of a registry whose users satisfy both filter selections
Both(A, B) ==
    {a \in DOMAIN users :
        Selected(A, a, users[a]) /\ Selected(B, a, users[a])}

\* C7: for every two filter selections A and B, select(A).select(B) holds
\* the profiles of the registry that satisfy both, unchanged, and the same
\* addresses as select(B).select(A).
C7_SelectComposition ==
    \A A \in Filters : \A B \in Filters :
        LET AB == select(select(Registry, A), B)
            BA == select(select(Registry, B), A)
        IN  /\ DOMAIN AB.users = Both(A, B)
            /\ \A a \in DOMAIN AB.users : AB.users[a] = users[a]
            /\ DOMAIN BA.users = DOMAIN AB.users

\* a registry of which select("artists").select("not_restricted") keeps one
\* profile and drops an artist and a profile that is not restricted
C7_Witness ==
    /\ Cardinality(Both("artists", "not_restricted")) = 1
    /\ Cardinality(Both("artists", "restricted")) = 1
    /\ Cardinality(DOMAIN select(Registry, "not_restricted").users) = 2

\* C8: for every profile with a mint, first_mint and last_mint hold the
\* least and the greatest of mint_timestamps, first before last, each with
\* the OBJKT id found at an index of minted_objkts where mint_timestamps
\* holds that timestamp.
C8_MintExtrema ==
    \A a \in DOMAIN users :
        LET user == users[a] IN
        Len(user.mint_timestamps) > 0 =>
            /\ user.first_mint # None /\ user.last_mint # None
            /\ user.first_mint.timestamp <= user.last_mint.timestamp
            /\ user.first_mint.timestamp = Min(user.mint_timestamps)
            /\ user.last_mint.timestamp = Max(user.mint_timestamps)
            /\ Len(user.minted_objkts) = Len(user.mint_timestamps)
            /\ \E i \in DOMAIN user.mint_timestamps :
                /\ user.mint_timestamps[i] = user.first_mint.timestamp
                /\ user.minted_objkts[i] = user.first_mint.id
            /\ \E i \in DOMAIN user.mint_timestamps :
                /\ user.mint_timestamps[i] = user.last_mint.timestamp
                /\ user.minted_objkts[i] = user.last_mint.id

\* a profile whose mints arrived out of order, the last one from a
\* collaboration
C8_Witness ==
    \E a \in DOMAIN users :
        /\ users[a].mint_timestamps = <<2, 1>>
        /\ users[a].minted_objkts = <<1, 2>>
        /\ users[a].first_mint = [id |-> 2, timestamp |-> 1]
        /\ users[a].last_mint = [id |-> 1, timestamp |-> 2]

\* C9: for mints, collects and swaps, the first and the last extremum of a
\* profile are both None when its list of timestamps of that kind is empty
\* and both set when it is not; first_activity and last_activity are both
\* None or both set.
C9_ExtremaDefined ==
    \A a \in DOMAIN users :
        LET user == users[a] IN
        /\ (user.first_mint # None) = (Len(user.mint_timestamps) > 0)
        /\ (user.last_mint # None) = (Len(user.mint_timestamps) > 0)
        /\ (user.first_collect # None) = (Len(user.collect_timestamps) > 0)
        /\ (user.last_collect # None) = (Len(user.collect_timestamps) > 0)
        /\ (user.first_swap # None) = (Len(user.swap_timestamps) > 0)
        /\ (user.last_swap # None) = (Len(user.swap_timestamps) > 0)
        /\ (user.first_activity # None) = (user.last_activity # None)

\* a profile with mints and swaps and no collect, beside a profile without
\* any activity
C9_Witness ==
    /\ \E a \in DOMAIN users :
        /\ users[a].first_mint # None /\ users[a].last_swap # None
        /\ users[a].first_collect = None
    /\ \E a \in DOMAIN users :
        users[a].first_activity = None /\ users[a].last_activity = None

\* first_activity is not after, and last_activity not before, the extrema
\* first and last of one kind
Around(user, first, last) ==
    first # None =>
        /\ user.first_activity # None /\ user.last_activity # None
        /\ user.first_activity.timestamp <= first.timestamp
        /\ user.last_activity.timestamp >= last.timestamp

\* C10: for every profile and each of mint, collect and swap that the
\* profile has an event of, first_activity is not after the first and
\* last_activity not before the last event of that kind.
C10_ActivityAround ==
    \A a \in DOMAIN users :
        /\ Around(users[a], users[a].first_mint, users[a].last_mint)
        /\ Around(users[a], users[a].first_collect, users[a].last_collect)
        /\ Around(users[a], users[a].first_swap, users[a].last_swap)

\* a profile whose first activity is a swap and whose last activity is a
\* later mint, merged from a collaboration
C10_Witness ==
    \E a \in DOMAIN users :
        /\ users[a].first_activity = [type |-> "swap", timestamp |-> 1]
        /\ users[a].last_activity = [type |-> "mint", timestamp |-> 2]
        /\ users[a].first_mint # None
        /\ users[a].last_swap # None
        /\ Len(users[a].collaborations) = 1

\* the greatest common divisor of two positive numbers
RECURSIVE Gcd(_, _)
Gcd(m, n) == IF n = 0 THEN m ELSE Gcd(n, m % n)

\* a fraction in lowest terms
Reduced(num, den) ==
    [num |-> num \div Gcd(num, den), den |-> den \div Gcd(num, den)]

\* the sum of two fractions
Plus(p, q) ==
    Reduced(p.num * q.den + q.num * p.den, p.den * q.den)

\* the sum of a column of fractions that have one denominator
ColumnSum(column) ==
    Reduced(Sum([i \in DOMAIN column |-> column[i].num]), column[1].den)

\* the sum of the fractions f[c], c in S
RECURSIVE SumOver(_, _)
SumOver(S, f) ==
    IF S = {} THEN [num |-> 0, den |-> 1]
    ELSE LET c == CHOOSE c \in S : TRUE
         IN  Plus(f[c], SumOver(S \ {c}, f))

\* the sum of every raw amount of a component is not zero
NonZeroSums ==
    /\ distribution # None
    /\ Len(distribution.users) > 0
    /\ \A c \in Components : distribution.amount[c][1].den # 0

\* the fraction of total_activity_amount that the nine amount columns hand
\* out together
Distributed ==
    SumOver(Components,
            [c \in Components |-> ColumnSum(distribution.amount[c])])

\* the sum over the users of total_amount: the part Distributed of
\* total_activity_amount (a whole number of tokens for every table drawn)
\* and the hdao amounts
TotalAmountSum ==
    (distribution.total_activity_amount \div Distributed.den)
        * Distributed.num
    + Sum(distribution.hdao_amount)

\* C3: when no component has a zero sum, the sum over the users of
\* total_amount plus treasury_amount is total_amount: the nine amounts
\* together hand out the whole of total_activity_amount.
C3_Conservation ==
    NonZeroSums =>
        /\ Distributed = [num |-> 1, den |-> 1]
        /\ TotalAmountSum + treasury_amount = total_amount

\* what holds in place of C3: the nine amounts hand out 98 hundredths of
\* total_activity_amount
C3_Distributed98 ==
    NonZeroSums =>
        /\ Distributed = Reduced(98, 100)
        /\ distribution.total_activity_amount % Distributed.den = 0
        /\ 100 * (total_amount - TotalAmountSum - treasury_amount)
               = 2 * distribution.total_activity_amount

\* the batches of collect transactions that hold a transaction the bigmaps
\* do not resolve, and the index of the first such transaction of a batch
UnresolvedBatches ==
    {batch \in CollectBatches : \E k \in DOMAIN batch : ~Resolved(batch[k])}

FirstUnresolved(batch) ==
    CHOOSE k \in DOMAIN batch :
        /\ ~Resolved(batch[k])
        /\ \A j \in 1..(k - 1) : Resolved(batch[j])

\* C13: add_collect_transactions on a batch that holds a transaction whose
\* swap id is not in swaps, or whose OBJKT is not in royalties, raises
\* KeyError and leaves the registry as the transactions before that one left
\* it: no profile created, no field changed by it or by the ones after it.
\* And a step of the registry that raises it is such a call.
C13_LookupErrorAborts ==
    /\ [](\A batch \in UnresolvedBatches :
            (raised = "None" /\ events + Len(batch) <= MaxEvents) =>
                \A orders \in BatchOrders(batch) :
                    LET k == FirstUnresolved(batch)
                        before == add_collect_transactions(
                                      Registry, SubSeq(batch, 1, k - 1),
                                      SubSeq(orders, 1, k - 1))
                        done == add_collect_transactions(
                                    Registry, batch, orders)
                    IN  /\ done.raised = "KeyError"
                        /\ before.raised = "None"
                        /\ done.registry = before.registry)
    /\ [][(raised' = "KeyError" /\ AddCollectTransactions) =>
            \/ /\ users' = users
               /\ users_keys' = users_keys
               /\ id_to_address' = id_to_address
            \/ \E collect \in CollectTransactions :
                 \E order \in TransactionOrders(collect) :
                    LET before == add_collect_transactions(
                                      Registry, <<collect>>, <<order>>)
                    IN  /\ users' = before.registry.users
                        /\ users_keys' = before.registry.keys
                        /\ id_to_address' = before.registry.id_to_address]_vars

\* a batch of two collects raised KeyError at its second transaction: the
\* first one is in the registry, and tz1Z, the sender of the second one, has
\* no profile
C13_Witness ==
    /\ raised = "KeyError"
    /\ events = 2
    /\ Uncompressed
    /\ "tz1Z" \notin DOMAIN users
    /\ \E a \in DOMAIN users :
        /\ Len(users[a].collected_objkts) = 1
        /\ users[a].artist_connections # <<>>

\* the type of every profile of a registry
Types(self) == [a \in DOMAIN self.users |-> self.users[a].type]

\* the registry after the calls of a list, from an empty registry
RECURSIVE Replay(_, _)
Replay(self, sequence) ==
    IF sequence = <<>>
    THEN self
    ELSE Replay(ApplyCall(self, Head(sequence),
                          CHOOSE order \in CallOrders(Head(sequence)) : TRUE),
                Tail(sequence))

\* C11: once the calls of a list are all made, the registry holds the
\* addresses and each profile has the type that the same calls made in any
\* other order leave, whatever the order each collect visits its addresses
\* in.
C11_OrderIndependent ==
    (calls # <<>> /\ events = Len(calls)) =>
        \A order \in Orders(DOMAIN calls) :
            Types(Replay(EmptyUsers, [i \in DOMAIN calls |-> calls[order[i]]]))
                = Types(Registry)

\* three calls of three kinds on one address: an hDAO owner that swapped and
\* collected
C11_Witness ==
    /\ Len(calls) = 3
    /\ events = 3
    /\ \E a \in DOMAIN users :
        /\ users[a].hdao > 0
        /\ Len(users[a].swap_timestamps) > 0
        /\ Len(users[a].collect_timestamps) > 0
        /\ users[a].type = "patron"

\* the addresses of the artists collaborations
CollaborationAddresses ==
    {artists_collaborations[i].address : i \in DOMAIN artists_collaborations}

\* C12 as stated: a profile of type artist has the type artist after every
\* operation.
C12_NeverDemoted ==
    [][\A a \in DOMAIN users :
        users[a].type = "artist" =>
            (a \in DOMAIN users' /\ users'[a].type = "artist")]_vars

\* C12: a profile of type artist has the type artist after every operation,
\* but for add_artists_collaborations, which leaves the type collaboration
\* to a profile whose address is a collaboration contract.
C12_ArtistUnlessCollaboration ==
    [][\A a \in DOMAIN users :
        users[a].type = "artist" =>
            /\ a \in DOMAIN users'
            /\ \/ users'[a].type = "artist"
               \/ /\ a \in CollaborationAddresses
                  /\ users'[a].type = "collaboration"
                  /\ AddArtistsCollaborations]_vars

\* a collaboration contract that minted and then took the type collaboration,
\* next to an artist that the same operations left an artist
C12_Witness ==
    \E a \in DOMAIN users : \E b \in DOMAIN users :
        /\ a \in CollaborationAddresses
        /\ Len(users[a].minted_objkts) > 0
        /\ users[a].type = "collaboration"
        /\ b \notin CollaborationAddresses
        /\ Len(users[b].minted_objkts) > 0
        /\ users[b].type = "artist"

\* the sum of the raw amounts of some component is zero
ZeroSum ==
    /\ distribution # None
    /\ \E c \in Components :
          Sum([i \in DOMAIN distribution.users |->
                  Amount(c, distribution.users[i])]) = 0

\* C14: when the sum of the raw amounts of a component is zero, the script
\* ends with an error and leaves no table of amounts (and so no amount that
\* is NaN).
C14_ZeroSumStops ==
    ZeroSum => "amount" \notin DOMAIN distribution

\* a user is below the activity floor
BelowFloor(row) ==
    row.active_days < 14 /\ row.teia_votes = 0 /\ row.money_spent < 1000

\* C15: the scaling factor of every user of the distribution is 3 for a
\* contributor; else 0 below the activity floor; else 3 for a verified user,
\* 2 for a user with a profile, and 1 for the others.
C15_ScalingFactorTable ==
    distribution # None =>
        \A i \in DOMAIN distribution.users :
            LET row == distribution.users[i]
                sf == distribution.scaling_factor[i]
            IN  /\ sf \in {0, 1, 2, 3}
                /\ row.contribution_level > 0 => sf = 3
                /\ (row.contribution_level = 0 /\ BelowFloor(row)) => sf = 0
                /\ (row.contribution_level = 0 /\ ~BelowFloor(row)) =>
                      /\ row.verified => sf = 3
                      /\ (~row.verified /\ row.has_profile) => sf = 2
                      /\ (~row.verified /\ ~row.has_profile) => sf = 1

\* a distribution with a contributor below the activity floor, without a
\* profile, whose scaling factor is 3
C15_Witness ==
    /\ distribution # None
    /\ \E i \in DOMAIN distribution.users :
        /\ distribution.users[i].contribution_level > 0
        /\ BelowFloor(distribution.users[i])
        /\ ~distribution.users[i].has_profile
        /\ ~distribution.users[i].verified
        /\ distribution.scaling_factor[i] = 3

\* a list of addresses is the first ones of the considered users of the
\* registry by descending metric, the users of one metric by ascending id
TopOf(result, n, metric) ==
    LET addresses == Considered(Registry, UsersOrder(Registry))
        k == Len(addresses)
        Before(a, b) ==
            \/ metric[a] > metric[b]
            \/ metric[a] = metric[b] /\ users[a].id < users[b].id
    IN  /\ Len(result) = (IF n < k THEN n ELSE k)
        /\ Elements(result) \subseteq Elements(addresses)
        /\ \A i, j \in DOMAIN result : i < j => Before(result[i], result[j])
        /\ \A a \in Elements(addresses) \ Elements(result) :
              \A i \in DOMAIN result : Before(result[i], a)

\* C16: what get_top_selling_artists(n) and get_top_collectors(n) return is
\* the first min(n, k) of the k users that are neither restricted nor wash
\* traders, by descending total_money_earned_own_objkts (total_money_spent),
\* the users of equal metric by ascending id.
C16_TopDeterministic ==
    [][returned' # returned =>
        /\ returned'.call = "get_top_selling_artists" =>
              TopOf(returned'.result, returned'.n,
                    [a \in DOMAIN users |->
                        users[a].total_money_earned_own_objkts])
        /\ returned'.call = "get_top_collectors" =>
              TopOf(returned'.result, returned'.n,
                    [a \in DOMAIN users |-> users[a].total_money_spent])]_vars

\* what holds in place of C16: the list holds min(n, k) considered users by
\* descending metric, in some order of the users of equal metric
C16_TopDescending ==
    [][returned' # returned =>
        LET metric == IF returned'.call = "get_top_selling_artists"
                      THEN [a \in DOMAIN users |->
                               users[a].total_money_earned_own_objkts]
                      ELSE [a \in DOMAIN users |-> users[a].total_money_spent]
            addresses == Considered(Registry, UsersOrder(Registry))
            result == returned'.result
        IN  /\ Len(result) = (IF returned'.n < Len(addresses)
                              THEN returned'.n ELSE Len(addresses))
            /\ Elements(result) \subseteq Elements(addresses)
            /\ \A i, j \in DOMAIN result : i < j =>
                  /\ result[i] # result[j]
                  /\ metric[result[i]] >= metric[result[j]]
            /\ \A a \in Elements(addresses) \ Elements(result) :
                  \A i \in DOMAIN result : metric[result[i]] >= metric[a]]_vars

\* the addresses that are keys of the connections of some profile
ConnectedAddresses ==
    UNION {{key.address : key \in DOMAIN users[a].artist_connections
                                  \cup DOMAIN users[a].collector_connections} :
           a \in DOMAIN users}

\* C17: compress_user_connections on a registry whose connections are keyed
\* by addresses raises nothing; after it every address that was a key has a
\* profile and every key is a user id.
C17_CompressCompletes ==
    [][(Uncompressed /\ CompressUserConnections) =>
        /\ raised' = "None"
        /\ ConnectedAddresses \subseteq DOMAIN users'
        /\ \A a \in DOMAIN users' :
            /\ IdKeyed(users'[a].artist_connections)
            /\ IdKeyed(users'[a].collector_connections)]_vars

\* what holds in place of C17: compress_user_connections raises KeyError on
\* a registry in which a connected address has no profile, and creates no
\* profile
C17_CompressRaises ==
    [][(Uncompressed /\ CompressUserConnections) =>
        /\ DOMAIN users' = DOMAIN users
        /\ raised' = (IF ConnectedAddresses \subseteq DOMAIN users
                      THEN "None" ELSE "KeyError")]_vars

----------------------------------------------------------------------------
(* The username of a profile *)

\* the names that the sources of the run supply for tz1X: None for a source
\* without a name, or with a blank one
NameOr(name) == IF name # None /\ Len(name.str) > 0 THEN name ELSE None

HenName ==
    IF "tz1X" \in DOMAIN sources.registries_bigmap
    THEN NameOr(Str(Strip(sources.registries_bigmap["tz1X"].user.str)))
    ELSE None

TzprofilesName ==
    IF "tz1X" \in DOMAIN sources.tzprofiles
    THEN LET tzprofile == sources.tzprofiles["tz1X"]
             given == {i \in 1..6 :
                         tzprofile[<<"alias", "twitter", "discord", "github",
                                     "domain_name", "ethereum">>[i]] # None}
             first == CHOOSE i \in given : \A j \in given : i <= j
         IN  IF given = {}
             THEN None
             ELSE NameOr(Str(Strip(
                      tzprofile[<<"alias", "twitter", "discord", "github",
                                  "domain_name", "ethereum">>[first]].str)))
    ELSE None

TzktName ==
    IF /\ "tz1X" \in DOMAIN sources.tzkt_metadata
       /\ "alias" \in DOMAIN sources.tzkt_metadata["tz1X"]
    THEN NameOr(Str(Strip(sources.tzkt_metadata["tz1X"].alias.str)))
    ELSE None

DomainName ==
    IF "tz1X" \in DOMAIN sources.tezos_domains_owners
    THEN LET tezos_domains == sources.tezos_domains_owners["tz1X"]
             own == {i \in DOMAIN tezos_domains :
                        tezos_domains[i].address = "tz1X"}
         IN  IF own = {}
             THEN None
             ELSE tezos_domains[CHOOSE i \in own : \A j \in own : i <= j]
                      .domain
    ELSE None

FxhashName ==
    IF "tz1X" \in DOMAIN sources.fxhash_usernames
    THEN NameOr(Str(Strip(First36(ReplaceSlashN(Replace(
             Strip(sources.fxhash_usernames["tz1X"].str), ",", " "))))))
    ELSE None

\* add_profiles_information has returned
ProfilesAdded == events = 1 /\ raised = "None" /\ sources # None

\* C18, as stated: after set_profiles_information the username is the name of
\* the highest source that has one, the sources being from the lowest to the
\* highest the tzkt alias, the tzprofiles alias or handles, the tezos domain
\* and the H=N registry name: a user with a tezos domain and a tzkt or
\* tzprofiles alias gets the domain name.
C18_UsernamePrecedence ==
    ProfilesAdded =>
        IF HenName # None THEN users["tz1X"].username = HenName
        ELSE IF DomainName # None THEN users["tz1X"].username = DomainName
        ELSE IF TzprofilesName # None
             THEN users["tz1X"].username = TzprofilesName
        ELSE IF TzktName # None THEN users["tz1X"].username = TzktName
        ELSE TRUE

\* C18, amended: after set_profiles_information the username is the name of
\* the highest source that has one, the sources being from the lowest to the
\* highest the tezos domain, the fxhash username, the tzkt alias, the
\* tzprofiles alias or handles and the H=N registry name: a user with a tezos
\* domain and a tzkt or tzprofiles alias gets the alias, and the domain name
\* is the username only when no other source has a name.
C18_UsernamePrecedenceOfCode ==
    ProfilesAdded =>
        users["tz1X"].username =
            IF HenName # None THEN HenName
            ELSE IF TzprofilesName # None THEN TzprofilesName
            ELSE IF TzktName # None THEN TzktName
            ELSE IF FxhashName # None THEN FxhashName
            ELSE DomainName

\* a user with a tezos domain and a tzkt alias, and no tzprofile nor registry
\* name, is named by the alias
C18_Witness ==
    /\ ProfilesAdded
    /\ DomainName # None
    /\ TzktName # None
    /\ TzprofilesName = None
    /\ HenName = None
    /\ users["tz1X"].username = TzktName
    /\ users["tz1X"].tezos_domains = <<DomainName>>

\* C19: set_profiles_information never fails because an identity source has
\* no entry for the profile, or because the tzkt metadata of the profile has
\* no alias: the call completes.
C19_AbsentEntriesComplete ==
    (events = 1 /\ sources # None) => raised = "None"

\* what the code does: without an entry in the tzkt metadata, or with
\* metadata that has no alias, the call raises KeyError, and the tzprofiles
\* and the H=N registry are not read
C19_AbsentTzktRaises ==
    (events = 1 /\ sources # None) =>
        /\ raised = "KeyError" <=>
              \/ "tz1X" \notin DOMAIN sources.tzkt_metadata
              \/ /\ DOMAIN sources.tzkt_metadata["tz1X"] # {}
                 /\ "alias" \notin DOMAIN sources.tzkt_metadata["tz1X"]
        /\ raised = "KeyError" =>
              /\ users["tz1X"].tzprofiles_username = None
              /\ users["tz1X"].hen_username = None

----------------------------------------------------------------------------
(* The type argument of get_all_transactions *)

\* the eight types of the transactions
AcceptedTypes ==
    {mint, mint_OBJKT, hen_collect, hen_swap, hen_cancel_swap, teia_collect,
     teia_swap, teia_cancel_swap}

\* get_all_transactions has been called
Called == calls # <<>> /\ calls[1].call = "get_all_transactions"

\* C20: get_all_transactions raises ValueError, before any file read or
\* query, for every type that is not exactly one of the eight types, the
\* empty string and the proper slices of a type included.
C20_OtherTypesRaise ==
    (Called /\ calls[1].type.str \notin AcceptedTypes) =>
        raised = "ValueError" /\ returned.queries = <<>>

\* what the code does: the call raises ValueError, before any file read or
\* query, for every type that is neither a slice of "mint" or of
\* "mint_OBJKT" nor one of the six types of the marketplaces
C20_OtherTypesRaiseUnlessSlice ==
    Called =>
        /\ raised = "ValueError" <=>
              /\ calls[1].type.str \notin AcceptedTypes
              /\ calls[1].type.str \notin Slices(mint_OBJKT)
        /\ raised = "ValueError" => returned.queries = <<>>
        /\ raised = "None" => returned.queries # <<>>

----------------------------------------------------------------------------
(* The profiles of a collect transaction *)

\* a collect transaction has been ingested last
Collected ==
    /\ calls # <<>>
    /\ calls[1].op = "add_collect_transactions"
    /\ calls[1].event = events

\* the creator, the seller and the collector of a collect transaction
Participants(transaction) ==
    {royalties[swaps[SwapId(transaction)].objkt_id].issuer,
     swaps[SwapId(transaction)].issuer,
     transaction.sender}

\* C21, as stated: for every collect transaction, all of its distinct
\* addresses (creator, seller, collector) have a profile before
\* add_collect_transaction is applied to any of them, and the transaction is
\* applied once to each distinct address.
C21_ProfilesBeforeAny ==
    Collected =>
        /\ \A i \in DOMAIN returned :
              Participants(calls[1].batch[1]) \subseteq returned[i].registered
        /\ Len(returned) = Cardinality(Participants(calls[1].batch[1]))
        /\ {returned[i].address : i \in DOMAIN returned} =
               Participants(calls[1].batch[1])

\* C21, amended: for every collect transaction, each of its distinct
\* addresses has a profile when add_collect_transaction is applied to it, the
\* profile of an address that had none being created right before that call
\* and after the calls for the addresses before it; the transaction is
\* applied once to each distinct address, and all of them have a profile
\* once the transaction is ingested.
C21_ProfileBeforeEach ==
    Collected =>
        /\ \A i \in DOMAIN returned :
              /\ returned[i].address \in returned[i].registered
              /\ \A j \in DOMAIN returned :
                    i < j => returned[i].registered
                                 \subseteq returned[j].registered
              /\ returned[i].registered \subseteq DOMAIN users
        /\ Len(returned) = Cardinality(Participants(calls[1].batch[1]))
        /\ {returned[i].address : i \in DOMAIN returned} =
               Participants(calls[1].batch[1])
        /\ Participants(calls[1].batch[1]) \subseteq DOMAIN users

\* a collect of three distinct addresses, applied to the first of them when
\* the two others had no profile
C21_Witness ==
    /\ Collected
    /\ Len(returned) = 3
    /\ Cardinality(returned[1].registered) = 1
    /\ Cardinality(returned[3].registered) = 3
    /\ \A a \in Participants(calls[1].batch[1]) :
          users[a].total_money_earned + users[a].total_money_spent > 0

----------------------------------------------------------------------------
(* The addresses of the registry under the enrichment operations *)

\* the set of addresses, their order or the index of the ids changes
AddressesChange ==
    \/ DOMAIN users' # DOMAIN users
    \/ users_keys' # users_keys
    \/ id_to_address' # id_to_address

\* C22: the enrichment operations (here add_restricted_addresses_information,
\* add_wash_trading_addresses_information,
\* add_contribution_level_information and add_artists_collaborations) leave
\* the set of registered addresses, len(users) and the index of the ids
\* unchanged, also when the input names an address that has no profile.
C22_EnrichmentKeepsAddresses ==
    [][AddressesChange =>
         ~(\/ AddContributionLevelInformation
           \/ AddRestrictedAddressesInformation
           \/ AddWashTradingAddressesInformation
           \/ AddArtistsCollaborations)]_vars

\* what the code does: add_contribution_level_information creates a profile
\* for every address of its input that has none; the operations that loop
\* over the users create none
C22_FanOutsKeepAddresses ==
    /\ [][AddressesChange =>
            ~(\/ AddRestrictedAddressesInformation
              \/ AddWashTradingAddressesInformation
              \/ AddArtistsCollaborations)]_vars
    /\ [](\A contribution_levels \in ContributionLevels :
            {contribution_levels[i].address :
                i \in DOMAIN contribution_levels} \subseteq
            DOMAIN add_contribution_level_information(
                       Registry, contribution_levels).users)

----------------------------------------------------------------------------
(* The ids of two runs *)

\* the calls made so far
Made == SubSeq(calls, 1, events)

\* the number of calls after which the address has a profile
FirstSeen(address) ==
    CHOOSE k \in 1..events :
        /\ address \in DOMAIN Replay(EmptyUsers, SubSeq(calls, 1, k)).users
        /\ address \notin
               DOMAIN Replay(EmptyUsers, SubSeq(calls, 1, k - 1)).users

\* C25: for the same sequence of batch ingestion calls with the same inputs,
\* two runs assign the same id to every address, also when one collect
\* transaction introduces two or three addresses: the ids of this run are the
\* ids of the run that Replay makes of the same calls.
C25_IdsDeterministic ==
    (calls # <<>> /\ events > 0) =>
        \A address \in DOMAIN users :
            users[address].id = Replay(EmptyUsers, Made).users[address].id

\* what the code does: two runs register the same addresses, with the ids
\* 0..len(users)-1, and an address that an earlier call introduced has a
\* smaller id than one that a later call introduced; the ids of the
\* addresses that one collect transaction introduces follow the order in
\* which the loop visits the set of its addresses
C25_IdsInOrderOfCalls ==
    (calls # <<>> /\ events > 0) =>
        /\ DOMAIN users = DOMAIN Replay(EmptyUsers, Made).users
        /\ {users[address].id : address \in DOMAIN users} =
               0..(Cardinality(DOMAIN users) - 1)
        /\ \A a, b \in DOMAIN users :
              FirstSeen(a) < FirstSeen(b) => users[a].id < users[b].id

----------------------------------------------------------------------------
(* The ids of a registry that select returned *)

\* C26: in every instance that a sequence of operations reaches, an instance
\* that select returned and that ingestion calls extend included, distinct
\* profiles have distinct ids and id_to_address[users[a].id] = a for every
\* registered address a.
C26_IdsIndexProfiles ==
    \A a \in DOMAIN users :
        /\ \A b \in DOMAIN users : a # b => users[a].id # users[b].id
        /\ users[a].id \in DOMAIN id_to_address
        /\ id_to_address[users[a].id] = a

\* what the code does: in a registry built from TeiaUsers() by the batch
\* operations the ids are 0..len(users)-1, in the order of the users dict,
\* and id_to_address is the inverse of the ids
C26_IdsFromEmpty ==
    /\ DOMAIN id_to_address = 0..(Cardinality(DOMAIN users) - 1)
    /\ Len(users_keys) = Cardinality(DOMAIN users)
    /\ \A i \in DOMAIN users_keys :
          /\ users[users_keys[i]].id = i - 1
          /\ id_to_address[i - 1] = users_keys[i]

----------------------------------------------------------------------------
(* The first activity of the artists, the patrons and the swappers *)

\* C27: every profile whose type is artist, patron or swapper has a first
\* and a last activity, a profile that only appeared as the creator or the
\* seller of a collected token included.
C27_ActivityOfTyped ==
    \A a \in DOMAIN users :
        users[a].type \in {"artist", "patron", "swapper"} =>
            /\ users[a].first_activity # None
            /\ users[a].last_activity # None

\* what the code does: a profile has a first and a last activity when it has
\* a mint, a collect or a swap of its own, and only then; so every patron has
\* them, and an artist or a swapper without them is a creator or a seller
\* that a collect transaction named
C27_ActivityOfOwnEvents ==
    \A a \in DOMAIN users :
        /\ (users[a].first_activity # None) =
              (Len(users[a].mint_timestamps) + Len(users[a].collect_timestamps)
               + Len(users[a].swap_timestamps) > 0)
        /\ users[a].type = "patron" => users[a].first_activity # None
        /\ (users[a].type \in {"artist", "swapper"}
               /\ users[a].first_activity = None) =>
              users[a].total_money_earned > 0

----------------------------------------------------------------------------
(* The types of the collectors *)

\* C28: every profile with a non-empty collected_objkts list has type artist,
\* patron or collaboration, and every patron has a non-empty collected_objkts
\* list; hence select("patrons") is a subset of select("collectors").
C28_CollectorsTyped ==
    /\ \A a \in DOMAIN users :
          /\ Len(users[a].collected_objkts) > 0 =>
                users[a].type \in {"artist", "patron", "collaboration"}
          /\ users[a].type = "patron" => Len(users[a].collected_objkts) > 0
    /\ DOMAIN select(Registry, "patrons").users
           \subseteq DOMAIN select(Registry, "collectors").users

\* C28, amended: every profile with a non-empty collected_objkts list has type
\* artist, patron or collaboration, or type swapper when it is a collaboration
\* contract that swapped or sold after add_artists_collaborations; every
\* patron has a non-empty collected_objkts list; hence select("patrons") is a
\* subset of select("collectors") and, among the addresses that are not
\* contracts, the collectors that are not patrons are artists.
C28_CollectorsTypedButContracts ==
    /\ \A a \in DOMAIN users :
          /\ Len(users[a].collected_objkts) > 0 =>
                \/ users[a].type \in {"artist", "patron", "collaboration"}
                \/ /\ users[a].type = "swapper"
                   /\ a \in CollaborationAddresses
                   /\ Len(users[a].swap_timestamps)
                      + Len(users[a].money_earned_own_objkts)
                      + Len(users[a].money_earned_other_objkts) > 0
          /\ users[a].type = "patron" => Len(users[a].collected_objkts) > 0
    /\ DOMAIN select(Registry, "patrons").users
           \subseteq DOMAIN select(Registry, "collectors").users
    /\ \A a \in DOMAIN select(select(Registry, "collectors"),
                               "not_contract").users :
          users[a].type \in {"artist", "patron"}

\* a collaboration contract that collected, was typed by
\* add_artists_collaborations and then swapped: a swapper with collected
\* OBJKTs, beside a patron
C28_Witness ==
    /\ "KT1C" \in DOMAIN users
    /\ Len(users["KT1C"].collected_objkts) > 0
    /\ users["KT1C"].type = "swapper"
    /\ Len(users["KT1C"].swap_timestamps) > 0

----------------------------------------------------------------------------
(* The money of a collect transaction *)

\* the total of a field over the profiles of a registry
Total(all_users, field) ==
    Sum([a \in DOMAIN all_users |-> all_users[a][field]])

\* the value of a field of the profile of an address before the step, 0 for
\* an address without a profile
Before(address, field) ==
    IF address \in DOMAIN users THEN users[address][field] ELSE 0

\* C29: for every collect transaction ingested through
\* add_collect_transactions, with paid amount p and royalties r, the sum over
\* all profiles of the increase of total_money_earned is p * (1 - 0.025): the
\* creator earns p * r and the seller p * (1 - r - 0.025), both when they are
\* one address; and total_money_spent increases for the collector only, by p.
C29_MoneyConserved ==
    [][(calls' # calls /\ calls'[1].op = "add_collect_transactions") =>
         LET transaction == calls'[1].batch[1]
             p == transaction.amount
             objkt_id == swaps[SwapId(transaction)].objkt_id
             r == royalties[objkt_id].royalties
             creator == royalties[objkt_id].issuer
             seller == swaps[SwapId(transaction)].issuer
         IN  /\ Total(users', "total_money_earned")
                    - Total(users, "total_money_earned")
                 = (p \div 1000) * (1000 - 25)
             /\ \A a \in DOMAIN users' :
                   /\ users'[a].total_money_earned
                          - Before(a, "total_money_earned")
                       = (IF a = creator THEN (p \div 1000) * r ELSE 0)
                         + (IF a = seller
                            THEN (p \div 1000) * (1000 - r - 25) ELSE 0)
                   /\ users'[a].total_money_spent
                          - Before(a, "total_money_spent")
                       = (IF a = transaction.sender THEN p ELSE 0)]_vars

\* a collect of 40 tez of an OBJKT with 10% of royalties, whose creator,
\* seller and collector are three addresses: 4 tez, 35 tez and 39 tez earned
C29_Witness ==
    /\ Collected
    /\ events = 1
    /\ calls[1].batch[1].sender = "KT1C"
    /\ users["tz1X"].total_money_earned = 4000000
    /\ users["tz1Y"].total_money_earned = 35000000
    /\ Total(users, "total_money_earned") = 39000000
    /\ users["KT1C"].total_money_spent = 40000000
    /\ Total(users, "total_money_spent") = 40000000

----------------------------------------------------------------------------
(* The signatures of the collaborations *)

\* the OBJKTs that an address signed
SignedBy(address) ==
    IF address \in DOMAIN artists_collaborations_signatures
    THEN artists_collaborations_signatures[address]
    ELSE {}

\* the positions in the mint lists of the collaboration of the OBJKTs that a
\* participant signed
SignedMints(collaboration, address) ==
    IF /\ address \in collaboration.coreParticipants
       /\ collaboration.address \in DOMAIN users
    THEN {i \in DOMAIN users[collaboration.address].minted_objkts :
             users[collaboration.address].minted_objkts[i]
                 \in SignedBy(address)}
    ELSE {}

\* the elements of a list at the positions of a set, in the order of the list
At(list, positions) ==
    LET Kept(i) == i \in positions
        kept == SelectSeq([i \in DOMAIN list |-> i], Kept)
    IN  [k \in DOMAIN kept |-> list[kept[k]]]

\* C23: in add_artists_collaborations a mint of collaboration C is appended
\* to the mint lists of P, and sets the type of P to artist, iff P is one of
\* the coreParticipants of C and P signed the OBJKT; C is added to
\* P.collaborations iff P signed one OBJKT at least that C minted; a
\* participant that signed none gets no mint, no change of type and no entry
\* in its collaborations from C.
C23_SignedMintsOnly ==
    [][AddArtistsCollaborations =>
         \A P \in DOMAIN users :
            LET C == artists_collaborations[1]
                signed == SignedMints(C, P)
                minted == IF signed = {} THEN <<>>
                          ELSE users[C.address].minted_objkts
                timestamps == IF signed = {} THEN <<>>
                              ELSE users[C.address].mint_timestamps
            IN  /\ users'[P].minted_objkts =
                       users[P].minted_objkts \o At(minted, signed)
                /\ users'[P].mint_timestamps =
                       users[P].mint_timestamps \o At(timestamps, signed)
                /\ users'[P].collaborations =
                       users[P].collaborations
                       \o (IF signed # {} THEN <<C.address>> ELSE <<>>)
                /\ users'[P].type =
                       IF signed # {} THEN "artist"
                       ELSE IF P = C.address THEN "collaboration"
                       ELSE users[P].type
                /\ signed = {} =>
                       /\ users'[P].first_mint = users[P].first_mint
                       /\ users'[P].last_mint = users[P].last_mint
                       /\ users'[P].first_activity = users[P].first_activity]_vars

\* the collaboration minted OBJKT 2: tz1X, a participant that signed it, has
\* it among its mints; tz1Y, a participant that signed another OBJKT, and a
\* collector until then, has no mint and no collaboration
C23_Witness ==
    /\ {"tz1X", "tz1Y", "KT1C"} \subseteq DOMAIN users
    /\ users["KT1C"].type = "collaboration"
    /\ users["KT1C"].minted_objkts = <<2>>
    /\ users["tz1X"].minted_objkts = <<2>>
    /\ users["tz1X"].collaborations = <<"KT1C">>
    /\ users["tz1X"].type = "artist"
    /\ users["tz1Y"].minted_objkts = <<>>
    /\ users["tz1Y"].collaborations = <<>>
    /\ users["tz1Y"].type = "patron"

----------------------------------------------------------------------------
(* The termination of add_artists_collaborations *)

\* C30: TeiaUsers.add_artists_collaborations terminates on every finite
\* input, also when the contract of a collaboration is listed among its own
\* coreParticipants and signed its own OBJKTs: the call returns.
C30_Terminates == <>(events = 1)

\* what the code does: the call returns, with the registry that the
\* operation on whole lists gives, when the contract is not a participant of
\* its own collaboration that signed one of its OBJKTs; when it is, each
\* iteration of the loop over its mints appends one mint to the lists that
\* the loop runs on, so that as many iterations as before are left
C30_TerminatesUnlessSelfSigned ==
    /\ [](events = 1 =>
            users = add_artists_collaborations(
                        calls[1].self, <<calls[1].collaboration>>,
                        calls[1].signatures).users)
    /\ [](raised = "MemoryError" =>
            /\ LoopUser.address = calls[1].collaboration.address
            /\ LoopUser.address \in calls[1].collaboration.coreParticipants
            /\ Elements(LoopUser.minted_objkts) \cap LoopSigned # {})
    /\ [][(/\ loop # None
           /\ loop' # None
           /\ loop.index >= 1
           /\ loop'.index = loop.index + 1
           /\ LoopUser.address = calls[1].collaboration.address
           /\ Elements(LoopUser.minted_objkts) \subseteq LoopSigned) =>
            Len(users'[LoopUser.address].minted_objkts) - loop'.index
                = Len(LoopUser.minted_objkts) - loop.index]_vars

----------------------------------------------------------------------------
(* The partition of the connections of a user *)

\* the interactions of the call: the artist and the collector of each collect
\* transaction and of each OBJKT of an objkt.com collector, contracts and
\* collects of one's own OBJKT left out
Interactions ==
    LET OfTransactions ==
            [i \in DOMAIN calls[1].transactions |->
                <<objkt_creators[connections_swaps[
                      calls[1].transactions[i].swap_id]],
                  calls[1].transactions[i].sender, TRUE>>]
        OfCollector(n) ==
            [i \in DOMAIN ObjktIds(calls[1].objktcom_collectors[n]) |->
                <<objkt_creators[ObjktIds(calls[1].objktcom_collectors[n])[i]],
                  calls[1].objktcom_collectors[n].address, FALSE>>]
        OfCollectors ==
            IF Len(calls[1].objktcom_collectors) = 0 THEN <<>>
            ELSE IF Len(calls[1].objktcom_collectors) = 1 THEN OfCollector(1)
            ELSE OfCollector(1) \o OfCollector(2)
    IN  SelectSeq(OfTransactions \o OfCollectors,
                  LAMBDA pair : /\ ~StartsWithKT(pair[1])
                                /\ pair[3] => ~StartsWithKT(pair[2])
                                /\ pair[1] # pair[2])

\* the number of collects by a collector of the OBJKTs of an artist
CollectsOf(artist, collector) ==
    Cardinality({i \in DOMAIN Interactions :
                    /\ Interactions[i][1] = artist
                    /\ Interactions[i][2] = collector})

\* the peers of a wallet
Peers(wallet) ==
    {Interactions[i][1] : i \in {j \in DOMAIN Interactions :
                                    Interactions[j][2] = wallet}}
        \cup {Interactions[i][2] : i \in {j \in DOMAIN Interactions :
                                             Interactions[j][1] = wallet}}

\* a list without repetitions
Distinct(list) == Cardinality(Elements(list)) = Len(list)

\* C24: in the output of extract_users_connections the three lists of
\* neighbours of every user are pairwise disjoint and hold together exactly
\* the peers of the user, each once; each list of weights is as long as its
\* list of neighbours; the weight of an artist or of a collector is the
\* number of interactions in that direction, and the weight of a peer in both
\* roles is the sum of the two numbers.
C24_ConnectionsPartition ==
    returned # None =>
        \A wallet \in DOMAIN returned.users_connections.entries :
            LET user == returned.users_connections.entries[wallet]
                both == user.artists_and_collectors
            IN  /\ Elements(both) \cap Elements(user.artists) = {}
                /\ Elements(both) \cap Elements(user.collectors) = {}
                /\ Elements(user.artists) \cap Elements(user.collectors) = {}
                /\ Distinct(both)
                /\ Distinct(user.artists)
                /\ Distinct(user.collectors)
                /\ Elements(both) \cup Elements(user.artists)
                       \cup Elements(user.collectors) = Peers(wallet)
                /\ Len(user.artists_and_collectors_weights) = Len(both)
                /\ Len(user.artists_weights) = Len(user.artists)
                /\ Len(user.collectors_weights) = Len(user.collectors)
                /\ \A i \in DOMAIN user.artists :
                       /\ user.artists_weights[i]
                              = CollectsOf(user.artists[i], wallet)
                       /\ CollectsOf(wallet, user.artists[i]) = 0
                /\ \A i \in DOMAIN user.collectors :
                       /\ user.collectors_weights[i]
                              = CollectsOf(wallet, user.collectors[i])
                       /\ CollectsOf(user.collectors[i], wallet) = 0
                /\ \A i \in DOMAIN both :
                       /\ user.artists_and_collectors_weights[i]
                              = CollectsOf(both[i], wallet)
                                    + CollectsOf(wallet, both[i])
                       /\ CollectsOf(both[i], wallet) > 0
                       /\ CollectsOf(wallet, both[i]) > 0
                /\ LET serialized ==
                           returned.serialized_users_connections[user.counter]
                   IN  /\ serialized.wallet = wallet
                       /\ serialized.artists_and_collectors_weights
                              = user.artists_and_collectors_weights
                       /\ Len(serialized.artists_and_collectors) = Len(both)

\* a user with a peer in both roles, of a weight that counts both, and with a
\* collector that has it as its artist
C24_Witness ==
    /\ returned # None
    /\ \E wallet \in DOMAIN returned.users_connections.entries :
         LET user == returned.users_connections.entries[wallet]
         IN  /\ user.artists_and_collectors # <<>>
             /\ user.collectors # <<>>
             /\ returned.users_connections.entries[user.collectors[1]].artists
                    = <<wallet>>
             /\ \E i \in DOMAIN user.artists_and_collectors_weights :
                    user.artists_and_collectors_weights[i] > 2

====
